---- MODULE Spec2Model ----
(***************************************************************************)
(* FinSight: the analytics derivation layer.                               *)
(*                                                                         *)
(*   - the store: tables expenses, budgets and expense_categories of the   *)
(*     migration, and the SQL function calculate_spending_insights         *)
(*     ("aggregate");                                                      *)
(*   - DataInsights.generateInsights, the rule engine over the fetched     *)
(*     expenses and the aggregate's rows;                                  *)
(*   - PredictiveAnalytics.generatePredictions and                         *)
(*     generateMonthlyProjection;                                          *)
(*   - the Dashboard's budget handlers and its calls of the aggregate;     *)
(*   - the Dashboard's async handlers step by step, await by await, with   *)
(*     the session, the loading flags and the AnalyticsDashboard's fetch.  *)
(*                                                                         *)
(* Money is DECIMAL(10,2): every amount is an integer number of cents.     *)
(* Ratios the code computes in floating point are compared here by exact   *)
(* cross-multiplication.                                                   *)
(***************************************************************************)
EXTENDS Integers, Sequences, FiniteSets, TLC

VARIABLES
    db_expenses,        \* table public.expenses: set of rows
    db_budgets,         \* table public.budgets: set of rows
    now,                \* the clock: [date |-> [y, m, d], tod |-> 0 (midnight UTC) or 1 (later)]
    rpc,                \* last call of calculate_spending_insights: its arguments and rows
    expenses,           \* AnalyticsDashboard state `expenses`, prop of DataInsights
    insights,           \* AnalyticsDashboard state `insights`, prop of DataInsights
    mounted,            \* the component that is followed: an analytics tab, or the Dashboard
    effectPending,      \* the mounted component's useEffect has yet to run for its props
    generatedInsights,  \* DataInsights state
    predictions,        \* PredictiveAnalytics state
    monthlyProjection,  \* PredictiveAnalytics state
    divisors,           \* the budget denominators of the ratios evaluated by the last run
    divisions,          \* the other divisions of the last run: [of |-> quotient, by |-> divisor]
    lastRpc,            \* the completed call before `rpc`, NULL once a table was written since
    lastBudgetOp,       \* the last write to public.budgets made through the Dashboard
    metrics,            \* AdvancedMetrics: the value of calculateMetrics() at its last render
    session,            \* the signed-in user supabase.auth.getUser() returns, NULL when none
    dashboard,          \* Dashboard state: loading, categories, spendingInsights, ...
    analytics,          \* AnalyticsDashboard state besides `expenses` and `insights`
    calls               \* the async handlers of the Dashboard that are under way

\* the state of the Dashboard, of its AnalyticsDashboard and of their handlers
dashVars == <<session, dashboard, analytics, calls>>

vars == <<db_expenses, db_budgets, now, rpc, expenses, insights, mounted, effectPending,
          generatedInsights, predictions, monthlyProjection, divisors, divisions,
          lastRpc, lastBudgetOp, metrics, dashVars>>

\* SQL NULL / an omitted argument; a present value v is <<v>>
NULL == << >>

COALESCE(a, dflt) == IF a = NULL THEN dflt ELSE a[1]

-----------------------------------------------------------------------------
(* Bounds of the model *)

MaxTx == 2          \* rows of public.expenses in an enumerated store
MaxBudgets == 2     \* rows of public.budgets in an enumerated store

Users == {"u1", "u2"}

-----------------------------------------------------------------------------
(* Calendar dates, columns of type DATE and the 'YYYY-MM-DD' strings *)

Date(y, m, d) == [y |-> y, m |-> m, d |-> d]

IsLeap(y) == (y % 4 = 0 /\ y % 100 # 0) \/ y % 400 = 0

DaysInMonth(y, m) ==
    IF m = 2 THEN (IF IsLeap(y) THEN 29 ELSE 28)
    ELSE IF m \in {4, 6, 9, 11} THEN 30 ELSE 31

RECURSIVE DaysBeforeMonth(_, _)
DaysBeforeMonth(y, m) ==
    IF m = 1 THEN 0 ELSE DaysBeforeMonth(y, m - 1) + DaysInMonth(y, m - 1)

RECURSIVE DaysBeforeYear(_)
DaysBeforeYear(y) ==
    IF y <= 2023 THEN 0
    ELSE DaysBeforeYear(y - 1) + (IF IsLeap(y - 1) THEN 366 ELSE 365)

\* new Date('YYYY-MM-DD').getTime() / (1000 * 3600 * 24), counted from 2023-01-01
DayNumber(dt) == DaysBeforeYear(dt.y) + DaysBeforeMonth(dt.y, dt.m) + dt.d

-----------------------------------------------------------------------------
(* The category catalog *)

\* rows inserted by the migration (the first three of the nine), keyed by id
expense_categories ==
    { [id |-> "c1", name |-> "Food & Dining"],
      [id |-> "c2", name |-> "Transportation"],
      [id |-> "c3", name |-> "Education"] }

\* the collation ORDER BY ec.name sorts with: rank of each name
NameRank(name) ==
    CASE name = "Education" -> 1
      [] name = "Food & Dining" -> 2
      [] name = "Transportation" -> 3
      [] OTHER -> 4

\* ORDER BY ec.name over the catalog
RECURSIVE OrderByName(_)
OrderByName(S) ==
    IF S = {} THEN << >>
    ELSE LET c == CHOOSE x \in S : \A z \in S : NameRank(x.name) <= NameRank(z.name)
         IN  <<c>> \o OrderByName(S \ {c})

-----------------------------------------------------------------------------
(* calculate_spending_insights *)

RECURSIVE SumAmount(_)
SumAmount(S) ==
    IF S = {} THEN 0
    ELSE LET r == CHOOSE x \in S : TRUE IN r.amount + SumAmount(S \ {r})

\* mutant: the subquery without its user filter
ExpenseFilter_NoUser(E, user_uuid, calc_month, calc_year) ==
    { x \in E : x.date.m = calc_month /\ x.date.y = calc_year }

\* WHERE user_id = user_uuid AND EXTRACT(MONTH FROM date) = calc_month
\*   AND EXTRACT(YEAR FROM date) = calc_year
ExpenseFilter(E, user_uuid, calc_month, calc_year) ==
    { x \in E : x.user_id = user_uuid /\ x.date.m = calc_month /\ x.date.y = calc_year }

\* the subquery e: one group per category_id that has a matching row
ExpenseGroups(E, user_uuid, calc_month, calc_year) ==
    LET F == ExpenseFilter(E, user_uuid, calc_month, calc_year)
    IN  { [category_id |-> c,
           total_spent |-> SumAmount({x \in F : x.category_id = c}),
           transaction_count |-> Cardinality({x \in F : x.category_id = c})]
          : c \in {x.category_id : x \in F} }

\* mutant: the budget join without its period conditions
BudgetJoin_NoPeriod(B, ec, user_uuid, calc_month, calc_year) ==
    { b \in B : b.category_id = ec.id /\ b.user_id = user_uuid }

\* LEFT JOIN public.budgets b ON ec.id = b.category_id AND b.user_id = user_uuid
\*   AND b.month = calc_month AND b.year = calc_year
BudgetJoin(B, ec, user_uuid, calc_month, calc_year) ==
    { b \in B : b.category_id = ec.id /\ b.user_id = user_uuid
                /\ b.month = calc_month /\ b.year = calc_year }

\* mutant: remaining_budget clamped at zero
InsightRow_Clamped(ec, e, b) ==
    LET r == COALESCE(b, [amount |-> 0]).amount - COALESCE(e, [total_spent |-> 0]).total_spent
    IN  [category_name |-> ec.name,
         total_spent |-> COALESCE(e, [total_spent |-> 0]).total_spent,
         budget_amount |-> COALESCE(b, [amount |-> 0]).amount,
         remaining_budget |-> IF r < 0 THEN 0 ELSE r,
         transaction_count |-> COALESCE(e, [transaction_count |-> 0]).transaction_count]

\* one output row of the SELECT list; e and b are NULL when the left join found none
InsightRow(ec, e, b) ==
    [category_name |-> ec.name,
     total_spent |-> COALESCE(e, [total_spent |-> 0]).total_spent,
     budget_amount |-> COALESCE(b, [amount |-> 0]).amount,
     remaining_budget |-> COALESCE(b, [amount |-> 0]).amount
                          - COALESCE(e, [total_spent |-> 0]).total_spent,
     transaction_count |-> COALESCE(e, [transaction_count |-> 0]).transaction_count]

RECURSIVE SetToRows(_, _, _)
SetToRows(ec, e, Bs) ==
    IF Bs = {} THEN << >>
    ELSE LET b == CHOOSE x \in Bs : \A z \in Bs : x.amount <= z.amount
         IN  <<InsightRow(ec, e, <<b>>)>> \o SetToRows(ec, e, Bs \ {b})

\* mutant: an inner join on the expense subquery
JoinRows_Inner(E, B, ec, user_uuid, calc_month, calc_year) ==
    LET G  == { g \in ExpenseGroups(E, user_uuid, calc_month, calc_year) :
                  g.category_id = ec.id }
        Bs == BudgetJoin(B, ec, user_uuid, calc_month, calc_year)
    IN  IF G = {} THEN << >>
        ELSE IF Bs = {} THEN <<InsightRow(ec, <<CHOOSE g \in G : TRUE>>, NULL)>>
        ELSE SetToRows(ec, <<CHOOSE g \in G : TRUE>>, Bs)

\* the rows the two left joins produce for one category
JoinRows(E, B, ec, user_uuid, calc_month, calc_year) ==
    LET G  == { g \in ExpenseGroups(E, user_uuid, calc_month, calc_year) :
                  g.category_id = ec.id }
        e  == IF G = {} THEN NULL ELSE <<CHOOSE g \in G : TRUE>>
        Bs == BudgetJoin(B, ec, user_uuid, calc_month, calc_year)
    IN  IF Bs = {} THEN <<InsightRow(ec, e, NULL)>> ELSE SetToRows(ec, e, Bs)

RECURSIVE ConcatRows(_, _, _, _, _, _)
ConcatRows(E, B, cats, user_uuid, calc_month, calc_year) ==
    IF cats = << >> THEN << >>
    ELSE JoinRows(E, B, Head(cats), user_uuid, calc_month, calc_year)
         \o ConcatRows(E, B, Tail(cats), user_uuid, calc_month, calc_year)

\* mutant: only the transactions dated up to the current date are summed
calculate_spending_insights_MonthToDate(E, B, today, user_uuid, target_month, target_year) ==
    LET calc_month == COALESCE(target_month, today.m)
        calc_year  == COALESCE(target_year, today.y)
    IN  ConcatRows({ x \in E : DayNumber(x.date) <= DayNumber(today) }, B,
                   OrderByName(expense_categories), user_uuid, calc_month, calc_year)

\* the function: COALESCE of the optional arguments, then the query
calculate_spending_insights(E, B, today, user_uuid, target_month, target_year) ==
    LET calc_month == COALESCE(target_month, today.m)
        calc_year  == COALESCE(target_year, today.y)
    IN  ConcatRows(E, B, OrderByName(expense_categories), user_uuid, calc_month, calc_year)

-----------------------------------------------------------------------------
(* DataInsights.generateInsights *)

\* an Insight; category, value, date and days are NULL when the rule sets none
Insight(type, title, priority, category, value, date, days) ==
    [type |-> type, title |-> title, priority |-> priority,
     category |-> category, value |-> value, date |-> date, days |-> days]

RECURSIVE Flatten(_)
Flatten(ss) == IF ss = << >> THEN << >> ELSE Head(ss) \o Flatten(Tail(ss))

RECURSIVE SeqSumAmount(_)
SeqSumAmount(s) == IF s = << >> THEN 0 ELSE Head(s).amount + SeqSumAmount(Tail(s))

RECURSIVE SeqSumTotalSpent(_)
SeqSumTotalSpent(s) ==
    IF s = << >> THEN 0 ELSE Head(s).total_spent + SeqSumTotalSpent(Tail(s))

\* (total_spent / budget_amount) * 100 > pct, for budget_amount > 0
UtilizationAbove(insight, pct) == insight.total_spent * 100 > pct * insight.budget_amount

\* mutant: the budget guard lets a zero budget through
HasBudget_OrZero(insight) == insight.budget_amount >= 0

\* if (insight.budget_amount > 0)
HasBudget(insight) == insight.budget_amount > 0

\* mutant: the over-budget threshold compared with >=
OverBudget_AtLimit(insight) == insight.total_spent * 100 >= 100 * insight.budget_amount

\* if (utilizationRate > 100)
OverBudget(insight) == UtilizationAbove(insight, 100)

\* mutant: the approaching-limit threshold compared with >=
ApproachingLimit_AtEighty(insight) == insight.total_spent * 100 >= 80 * insight.budget_amount

\* else if (utilizationRate > 80)
ApproachingLimit(insight) == UtilizationAbove(insight, 80)

\* 1. Budget Analysis, one summary
BudgetInsight(insight, clock) ==
    IF HasBudget(insight)
    THEN IF OverBudget(insight)
         THEN << Insight("warning", "Over Budget", "high", <<insight.category_name>>,
                         <<insight.total_spent - insight.budget_amount>>, NULL, NULL) >>
         ELSE IF ApproachingLimit(insight)
         THEN << Insight("warning", "Approaching Budget Limit", "medium",
                         <<insight.category_name>>, NULL, NULL,
                         <<DaysInMonth(clock.date.y, clock.date.m) - clock.date.d>>) >>
         ELSE << >>
    ELSE << >>

BudgetAnalysis(ins, clock) == Flatten([k \in DOMAIN ins |-> BudgetInsight(ins[k], clock)])

\* the denominators of utilizationRate that the budget analysis divides by
BudgetAnalysisDivisors(ins) ==
    { ins[k].budget_amount : k \in { j \in DOMAIN ins : HasBudget(ins[j]) } }

\* dailySpending: the dates in order of first occurrence, and the sum of each date
RECURSIVE DailyKeys(_)
DailyKeys(exps) ==
    IF exps = << >> THEN << >>
    ELSE LET rest == DailyKeys(SubSeq(exps, 1, Len(exps) - 1))
             d == exps[Len(exps)].date
         IN  IF \E k \in DOMAIN rest : rest[k] = d THEN rest ELSE Append(rest, d)

DailyTotal(exps, d) == SeqSumAmount(SelectSeq(exps, LAMBDA e : e.date = d))

\* mutant: the average taken over the seven days of a week
SpendingPatterns_WeeklyAverage(exps) ==
    LET keys == DailyKeys(exps)
        totalSpent == SeqSumAmount(exps)
        high == { k \in DOMAIN keys : DailyTotal(exps, keys[k]) * 7 > totalSpent * 2 }
    IN  IF high = {} THEN << >>
        ELSE LET top == CHOOSE k \in high :
                          \A j \in high :
                             \/ DailyTotal(exps, keys[k]) > DailyTotal(exps, keys[j])
                             \/ (DailyTotal(exps, keys[k]) = DailyTotal(exps, keys[j]) /\ k <= j)
             IN  << Insight("trend", "High Spending Day Detected", "medium", NULL,
                            <<DailyTotal(exps, keys[top])>>, <<keys[top]>>, NULL) >>

\* mutant: a day counts as high once it is above the average itself
SpendingPatterns_AboveAverage(exps) ==
    LET keys == DailyKeys(exps)
        spendingDays == Len(keys)
        totalSpent == SeqSumAmount(exps)
        high == { k \in DOMAIN keys : DailyTotal(exps, keys[k]) * spendingDays > totalSpent }
    IN  IF high = {} THEN << >>
        ELSE LET top == CHOOSE k \in high :
                          \A j \in high :
                             \/ DailyTotal(exps, keys[k]) > DailyTotal(exps, keys[j])
                             \/ (DailyTotal(exps, keys[k]) = DailyTotal(exps, keys[j]) /\ k <= j)
             IN  << Insight("trend", "High Spending Day Detected", "medium", NULL,
                            <<DailyTotal(exps, keys[top])>>, <<keys[top]>>, NULL) >>

\* 2. Spending Patterns: the days above twice the average, the largest of them first
SpendingPatterns(exps) ==
    LET keys == DailyKeys(exps)
        spendingDays == Len(keys)
        totalSpent == SeqSumAmount(exps)
        \* amount > avgDailySpending * 2 with avgDailySpending = totalSpent / spendingDays
        high == { k \in DOMAIN keys : DailyTotal(exps, keys[k]) * spendingDays > totalSpent * 2 }
    IN  IF high = {} THEN << >>
        ELSE LET top == CHOOSE k \in high :
                          \A j \in high :
                             \/ DailyTotal(exps, keys[k]) > DailyTotal(exps, keys[j])
                             \/ (DailyTotal(exps, keys[k]) = DailyTotal(exps, keys[j]) /\ k <= j)
             IN  << Insight("trend", "High Spending Day Detected", "medium", NULL,
                            <<DailyTotal(exps, keys[top])>>, <<keys[top]>>, NULL) >>

\* mutant: the share compared as a fraction, without the factor 100
Concentrated_Fraction(top_spent, totalSpent) == top_spent > 40 * totalSpent

\* mutant: the concentration threshold at 50%
Concentrated_Half(top_spent, totalSpent) == top_spent * 100 > 50 * totalSpent

\* percentage > 40 with percentage = (topCategory.total_spent / totalSpent) * 100;
\* totalSpent is a sum of positive numbers
Concentrated(top_spent, totalSpent) == top_spent * 100 > 40 * totalSpent

\* 3. Category Insights
CategoryInsights(ins) ==
    LET spending == SelectSeq(ins, LAMBDA i : i.total_spent > 0)
    IN  IF spending = << >> THEN << >>
        ELSE LET top == CHOOSE k \in DOMAIN spending :
                          \A j \in DOMAIN spending :
                             \/ spending[k].total_spent > spending[j].total_spent
                             \/ (spending[k].total_spent = spending[j].total_spent /\ k <= j)
                 totalSpent == SeqSumTotalSpent(spending)
             IN  IF Concentrated(spending[top].total_spent, totalSpent)
                 THEN << Insight("warning", "Spending Concentration Risk", "medium",
                                 <<spending[top].category_name>>, NULL, NULL, NULL) >>
                 ELSE << >>

\* mutant: twenty transactions are enough
FrequencyInsight_AtTwenty(insight) ==
    IF insight.transaction_count > 0
    THEN IF /\ insight.transaction_count >= 20
            /\ insight.total_spent < 1000 * insight.transaction_count
         THEN << Insight("suggestion", "Frequent Small Purchases", "low",
                         <<insight.category_name>>, NULL, NULL, NULL) >>
         ELSE << >>
    ELSE << >>

\* 4. Frequency Analysis, one summary: more than 20 transactions averaging under $10
FrequencyInsight(insight) ==
    IF insight.transaction_count > 0
    THEN IF /\ insight.transaction_count > 20
            /\ insight.total_spent < 1000 * insight.transaction_count
         THEN << Insight("suggestion", "Frequent Small Purchases", "low",
                         <<insight.category_name>>, NULL, NULL, NULL) >>
         ELSE << >>
    ELSE << >>

FrequencyAnalysis(ins) == Flatten([k \in DOMAIN ins |-> FrequencyInsight(ins[k])])

\* mutant: a category counts as under budget only once something was spent in it
PositiveInsights_NeedsSpending(ins) ==
    LET under == SelectSeq(ins, LAMBDA i : i.budget_amount > 0 /\ i.total_spent > 0
                                          /\ i.total_spent * 10 < i.budget_amount * 8)
    IN  IF under = << >> THEN << >>
        ELSE LET best == CHOOSE k \in DOMAIN under :
                           \A j \in DOMAIN under :
                              LET rk == under[k].budget_amount - under[k].total_spent
                                  rj == under[j].budget_amount - under[j].total_spent
                              IN  rk > rj \/ (rk = rj /\ k <= j)
             IN  << Insight("achievement", "Great Budget Management", "low",
                            <<under[best].category_name>>, NULL, NULL, NULL) >>

\* mutant: on equal remaining budgets the later category wins
PositiveInsights_LastOnTies(ins) ==
    LET under == SelectSeq(ins, LAMBDA i : i.budget_amount > 0
                                          /\ i.total_spent * 10 < i.budget_amount * 8)
    IN  IF under = << >> THEN << >>
        ELSE LET best == CHOOSE k \in DOMAIN under :
                           \A j \in DOMAIN under :
                              LET rk == under[k].budget_amount - under[k].total_spent
                                  rj == under[j].budget_amount - under[j].total_spent
                              IN  rk > rj \/ (rk = rj /\ k >= j)
             IN  << Insight("achievement", "Great Budget Management", "low",
                            <<under[best].category_name>>, NULL, NULL, NULL) >>

\* 5. Positive Insights: budget_amount > 0 && total_spent < budget_amount * 0.8
PositiveInsights(ins) ==
    LET under == SelectSeq(ins, LAMBDA i : i.budget_amount > 0
                                          /\ i.total_spent * 10 < i.budget_amount * 8)
    IN  IF under = << >> THEN << >>
        ELSE LET best == CHOOSE k \in DOMAIN under :
                           \A j \in DOMAIN under :
                              LET rk == under[k].budget_amount - under[k].total_spent
                                  rj == under[j].budget_amount - under[j].total_spent
                              IN  rk > rj \/ (rk = rj /\ k <= j)
             IN  << Insight("achievement", "Great Budget Management", "low",
                            <<under[best].category_name>>, NULL, NULL, NULL) >>

\* daysDiff <= n with daysDiff = (now.getTime() - new Date(expense.date).getTime()) / day
DaysDiffAtMost(clock, d, n) ==
    LET whole == DayNumber(clock.date) - DayNumber(d)
    IN  whole < n \/ (whole = n /\ clock.tod = 0)

Abs(x) == IF x < 0 THEN -x ELSE x

\* mutant: the recent window closed before the seventh day
RecentSpending_BeforeSeven(exps, clock) ==
    SeqSumAmount(SelectSeq(exps, LAMBDA e :
        DayNumber(clock.date) - DayNumber(e.date) < 7))

\* expenses.filter(... daysDiff <= 7), summed
RecentSpending(exps, clock) ==
    SeqSumAmount(SelectSeq(exps, LAMBDA e : DaysDiffAtMost(clock, e.date, 7)))

\* expenses.filter(... daysDiff > 7 && daysDiff <= 14), summed
PreviousSpending(exps, clock) ==
    SeqSumAmount(SelectSeq(exps, LAMBDA e : /\ ~DaysDiffAtMost(clock, e.date, 7)
                                            /\ DaysDiffAtMost(clock, e.date, 14)))

\* mutant: the trend rule without its guard on the previous week
TrendAnalysis_Unguarded(exps, clock) ==
    LET recentSpending == RecentSpending(exps, clock)
        previousSpending == PreviousSpending(exps, clock)
        increasing == recentSpending - previousSpending > 0
        magnitude == Abs(recentSpending - previousSpending) * 100
    IN  IF magnitude > 20 * Abs(previousSpending)
        THEN << Insight(IF increasing THEN "warning" ELSE "achievement",
                        IF increasing THEN "Spending Trend: Increasing"
                                      ELSE "Spending Trend: Decreasing",
                        IF magnitude > 50 * Abs(previousSpending) THEN "high" ELSE "medium",
                        NULL, NULL, NULL, NULL) >>
        ELSE << >>

\* 6. Trend Analysis: the last 7 days against the 7 days before
TrendAnalysis(exps, clock) ==
    LET recentSpending == RecentSpending(exps, clock)
        previousSpending == PreviousSpending(exps, clock)
        \* changePercent = (recentSpending - previousSpending) / previousSpending * 100
        increasing == recentSpending - previousSpending > 0
        magnitude == Abs(recentSpending - previousSpending) * 100
    IN  IF previousSpending > 0 /\ magnitude > 20 * previousSpending
        THEN << Insight(IF increasing THEN "warning" ELSE "achievement",
                        IF increasing THEN "Spending Trend: Increasing"
                                      ELSE "Spending Trend: Decreasing",
                        IF magnitude > 50 * previousSpending THEN "high" ELSE "medium",
                        NULL, NULL, NULL, NULL) >>
        ELSE << >>

\* the divisions the rules 2, 3, 4 and 6 evaluate: avgDailySpending (unguarded),
\* percentage, avgTransactionSize and changePercent (each inside its guard)
InsightDivisions(exps, ins, clock) ==
    LET spending == SelectSeq(ins, LAMBDA i : i.total_spent > 0)
    IN  { [of |-> "avgDailySpending", by |-> Len(DailyKeys(exps))] }
        \cup (IF spending = << >> THEN {}
              ELSE { [of |-> "percentage", by |-> SeqSumTotalSpent(spending)] })
        \cup { [of |-> "avgTransactionSize", by |-> ins[k].transaction_count]
               : k \in { j \in DOMAIN ins : ins[j].transaction_count > 0 } }
        \cup (IF PreviousSpending(exps, clock) > 0
              THEN { [of |-> "changePercent", by |-> PreviousSpending(exps, clock)] }
              ELSE {})

\* priorityOrder = { high: 3, medium: 2, low: 1 }
PriorityOrder(p) == CASE p = "high" -> 3 [] p = "medium" -> 2 [] OTHER -> 1

\* mutant: the list left in the order of generation
SortByPriority_Unsorted(list) == list

RECURSIVE Reverse(_)
Reverse(list) == IF list = << >> THEN << >> ELSE Append(Reverse(Tail(list)), Head(list))

\* mutant: a sort that is not stable, equal priorities come out in reverse
SortByPriority_Unstable(list) ==
    Reverse(SelectSeq(list, LAMBDA i : PriorityOrder(i.priority) = 3))
    \o Reverse(SelectSeq(list, LAMBDA i : PriorityOrder(i.priority) = 2))
    \o Reverse(SelectSeq(list, LAMBDA i : PriorityOrder(i.priority) = 1))

\* newInsights.sort((a, b) => priorityOrder[b.priority] - priorityOrder[a.priority]):
\* a stable sort, larger priorityOrder first
SortByPriority(list) ==
    SelectSeq(list, LAMBDA i : PriorityOrder(i.priority) = 3)
    \o SelectSeq(list, LAMBDA i : PriorityOrder(i.priority) = 2)
    \o SelectSeq(list, LAMBDA i : PriorityOrder(i.priority) = 1)

\* the list before the sort, in the order the rules push
NewInsights(exps, ins, clock) ==
    BudgetAnalysis(ins, clock) \o SpendingPatterns(exps) \o CategoryInsights(ins)
    \o FrequencyAnalysis(ins) \o PositiveInsights(ins) \o TrendAnalysis(exps, clock)

generateInsights(exps, ins, clock) == SortByPriority(NewInsights(exps, ins, clock))

-----------------------------------------------------------------------------
(* PredictiveAnalytics.generatePredictions *)

RECURSIVE GCD(_, _)
GCD(a, b) == IF b = 0 THEN a ELSE GCD(b, a % b)

\* a fraction of non-negative numerator and positive denominator in lowest terms
Fraction(num, den) ==
    LET g == GCD(num, den) IN [num |-> num \div g, den |-> den \div g]

\* Object.values(dailySpending): the daily totals in order of first occurrence
SpendingValues(exps) ==
    [k \in DOMAIN DailyKeys(exps) |-> DailyTotal(exps, DailyKeys(exps)[k])]

RECURSIVE SeqSum(_)
SeqSum(vals) == IF vals = << >> THEN 0 ELSE Head(vals) + SeqSum(Tail(vals))

RECURSIVE SeqSumSquares(_)
SeqSumSquares(vals) ==
    IF vals = << >> THEN 0 ELSE Head(vals) * Head(vals) + SeqSumSquares(Tail(vals))

RECURSIVE SeqGCD(_)
SeqGCD(vals) == IF vals = << >> THEN 0 ELSE GCD(Abs(Head(vals)), SeqGCD(Tail(vals)))

\* the square of coefficientOfVariation. With n values of sum S the mean is S / n, the
\* variance (n * sum of squares - S^2) / n^2, and standardDeviation / avgSpending is
\* sqrt(n * sum of squares - S^2) / S; the quotient does not change when every value
\* is divided by their common divisor, which keeps the squares small. The ratio is 1
\* when avgSpending > 0 is false: a mean of zero or below, and the NaN of an empty list.
CoefficientOfVariationSquared(exps) ==
    LET vals == SpendingValues(exps)
        g == SeqGCD(vals)
        w == [k \in DOMAIN vals |-> IF g = 0 THEN 0 ELSE vals[k] \div g]
        n == Len(w)
        S == SeqSum(w)
    IN  IF n > 0 /\ S > 0
        THEN Fraction(n * SeqSumSquares(w) - S * S, S * S)
        ELSE Fraction(1, 1)

\* Math.max(0.3, 1 - coefficientOfVariation) = 1 - sqrt(min(0.49, cv^2)): the value is
\* kept as the fraction under the root, so 0/1 is confidence 1 and 49/100 the floor 0.3
Confidence(exps) ==
    LET cv2 == CoefficientOfVariationSquared(exps)
    IN  [oneMinusSqrt |-> IF 100 * cv2.num >= 49 * cv2.den THEN Fraction(49, 100) ELSE cv2]

\* mutant: the rate is extrapolated over the days that remain
Prediction_RemainingDays(insight, exps, clock) ==
    LET daysInMonth == DaysInMonth(clock.date.y, clock.date.m)
        daysPassed == clock.date.d
        num == insight.total_spent * (daysInMonth - daysPassed)
        den == daysPassed
    IN  [category |-> insight.category_name,
         currentSpent |-> insight.total_spent,
         predictedTotal |-> [num |-> num, den |-> den],
         budget |-> insight.budget_amount,
         confidence |-> Confidence(exps),
         riskLevel |-> IF num * 10 > 12 * den * insight.budget_amount THEN "high"
                       ELSE IF num * 10 > 9 * den * insight.budget_amount THEN "medium"
                       ELSE "low",
         daysRemaining |-> daysInMonth - daysPassed]

\* mutant: risk is high from exactly 120% of the budget on
Prediction_HighAtLimit(insight, exps, clock) ==
    LET daysInMonth == DaysInMonth(clock.date.y, clock.date.m)
        daysPassed == clock.date.d
        num == insight.total_spent * daysInMonth
        den == daysPassed
    IN  [category |-> insight.category_name,
         currentSpent |-> insight.total_spent,
         predictedTotal |-> [num |-> num, den |-> den],
         budget |-> insight.budget_amount,
         confidence |-> Confidence(exps),
         riskLevel |-> IF num * 10 >= 12 * den * insight.budget_amount THEN "high"
                       ELSE IF num * 10 > 9 * den * insight.budget_amount THEN "medium"
                       ELSE "low",
         daysRemaining |-> daysInMonth - daysPassed]

\* one Prediction; predictedTotal = (total_spent / daysPassed) * daysInMonth is kept as
\* the fraction num / den
Prediction(insight, exps, clock) ==
    LET daysInMonth == DaysInMonth(clock.date.y, clock.date.m)
        daysPassed == clock.date.d
        num == insight.total_spent * daysInMonth
        den == daysPassed
        \* budgetUtilization = predictedTotal / insight.budget_amount
    IN  [category |-> insight.category_name,
         currentSpent |-> insight.total_spent,
         predictedTotal |-> [num |-> num, den |-> den],
         budget |-> insight.budget_amount,
         confidence |-> Confidence(exps),
         riskLevel |-> IF num * 10 > 12 * den * insight.budget_amount THEN "high"
                       ELSE IF num * 10 > 9 * den * insight.budget_amount THEN "medium"
                       ELSE "low",
         daysRemaining |-> daysInMonth - daysPassed]

\* insights.filter(insight => insight.budget_amount > 0)
Budgeted(ins) == SelectSeq(ins, LAMBDA i : i.budget_amount > 0)

generatePredictions(exps, ins, clock) ==
    [k \in DOMAIN Budgeted(ins) |-> Prediction(Budgeted(ins)[k], exps, clock)]

\* the denominators of budgetUtilization
PredictionDivisors(ins) == { Budgeted(ins)[k].budget_amount : k \in DOMAIN Budgeted(ins) }

\* the other divisions of generatePredictions (per budgeted summary) and of
\* generateMonthlyProjection
PredictionDivisions(exps, ins, clock) ==
    LET n == Len(DailyKeys(exps))
        sum == SeqSumAmount(exps)
    IN  (IF Budgeted(ins) = << >> THEN {}
         ELSE { [of |-> "spendingRate", by |-> clock.date.d],
                [of |-> "avgSpending", by |-> n],
                [of |-> "variance", by |-> n] }
              \* standardDeviation / avgSpending, the mean recorded by its sum
              \cup (IF n > 0 /\ sum > 0
                    THEN { [of |-> "coefficientOfVariation", by |-> sum] }
                    ELSE {}))
        \cup { [of |-> "avgDailySpending", by |-> clock.date.d] }

-----------------------------------------------------------------------------
(* PredictiveAnalytics.generateMonthlyProjection *)

\* the for loop from `day` on: cumulativeActual and cumulativePredicted are carried from
\* one day to the next; cumulativePredicted is kept as a fraction over daysPassed, and
\* avgDailySpending = totalSpent / daysPassed adds totalSpent to its numerator
RECURSIVE ProjectionLoop(_, _, _, _, _, _)
ProjectionLoop(exps, totalSpent, clock, day, cumulativeActual, cumulativePredicted) ==
    LET daysPassed == clock.date.d
        actualSpending == DailyTotal(exps, Date(clock.date.y, clock.date.m, day))
        newActual == IF day <= daysPassed THEN cumulativeActual + actualSpending
                     ELSE cumulativeActual
        newPredicted == IF day <= daysPassed THEN newActual * daysPassed
                        ELSE cumulativePredicted + totalSpent
    IN  IF day > DaysInMonth(clock.date.y, clock.date.m) THEN << >>
        ELSE << [day |-> day,
                 actual |-> IF day <= daysPassed THEN <<newActual>> ELSE NULL,
                 predicted |-> [num |-> newPredicted, den |-> daysPassed],
                 isProjected |-> day > daysPassed] >>
             \o ProjectionLoop(exps, totalSpent, clock, day + 1, newActual, newPredicted)

\* mutant: the projection adds nothing per future day
generateMonthlyProjection_Flat(exps, ins, clock) ==
    ProjectionLoop(exps, 0, clock, 1, 0, 0)

\* mutant: the loop starts at day 2
generateMonthlyProjection_FromDayTwo(exps, ins, clock) ==
    ProjectionLoop(exps, SeqSumTotalSpent(ins), clock, 2, 0, 0)

\* mutant: the daily average taken from the listed expenses instead of the summaries
generateMonthlyProjection_ListTotal(exps, ins, clock) ==
    ProjectionLoop(exps, SeqSumAmount(exps), clock, 1, 0, 0)

generateMonthlyProjection(exps, ins, clock) ==
    ProjectionLoop(exps, SeqSumTotalSpent(ins), clock, 1, 0, 0)

-----------------------------------------------------------------------------
(* AdvancedMetrics.calculateMetrics *)

RECURSIVE SeqSumBudgetAmount(_)
SeqSumBudgetAmount(s) ==
    IF s = << >> THEN 0 ELSE Head(s).budget_amount + SeqSumBudgetAmount(Tail(s))

\* insights.reduce((max, insight) => insight.total_spent > max.total_spent ? insight : max,
\*                 insights[0] || { category_name: 'None', total_spent: 0 })
RECURSIVE LargestCategory(_, _)
LargestCategory(ins, max) ==
    IF ins = << >> THEN max
    ELSE LargestCategory(Tail(ins),
                         IF Head(ins).total_spent > max.total_spent THEN Head(ins) ELSE max)

\* spendingVelocity, a quotient kept as numerator and denominator: the filters of
\* last7Days and previous7Days, their sums, and the guarded percentage
SpendingVelocity(exps, clock) ==
    LET last7Days == SelectSeq(exps, LAMBDA e : DaysDiffAtMost(clock, e.date, 7))
        previous7Days == SelectSeq(exps, LAMBDA e : /\ ~DaysDiffAtMost(clock, e.date, 7)
                                                    /\ DaysDiffAtMost(clock, e.date, 14))
        recentSpending == SeqSumAmount(last7Days)
        previousSpending == SeqSumAmount(previous7Days)
    IN  IF previousSpending > 0
        THEN [num |-> (recentSpending - previousSpending) * 100, den |-> previousSpending]
        ELSE [num |-> 0, den |-> 1]

\* the object calculateMetrics returns; every quotient is kept as num / den
calculateMetrics(exps, ins, clock) ==
    LET daysInMonth == DaysInMonth(clock.date.y, clock.date.m)
        daysPassed == clock.date.d
        totalSpent == SeqSumTotalSpent(ins)
        totalBudget == SeqSumBudgetAmount(ins)
        daysRemaining == daysInMonth - daysPassed
        remainingBudget == totalBudget - totalSpent
    IN  [dailyAverage |-> [num |-> totalSpent, den |-> daysPassed],
         projectedMonthlySpend |-> [num |-> totalSpent * daysInMonth, den |-> daysPassed],
         budgetUtilization |-> IF totalBudget > 0
                               THEN [num |-> totalSpent * 100, den |-> totalBudget]
                               ELSE [num |-> 0, den |-> 1],
         spendingVelocity |-> SpendingVelocity(exps, clock),
         categoriesOverBudget |->
             Len(SelectSeq(ins, LAMBDA i : i.budget_amount > 0
                                           /\ i.total_spent > i.budget_amount)),
         largestCategory |->
             IF ins = << >> THEN [category_name |-> "None", total_spent |-> 0]
             ELSE LargestCategory(ins, Head(ins)),
         daysRemaining |-> daysRemaining,
         dailyBudgetRemaining |-> IF daysRemaining > 0
                                  THEN [num |-> remainingBudget, den |-> daysRemaining]
                                  ELSE [num |-> 0, den |-> 1],
         totalBudget |-> totalBudget,
         totalSpent |-> totalSpent]

-----------------------------------------------------------------------------
(* Stores the aggregate is applied to *)

Today == Date(2025, 3, 15)

UserSeq == <<"u1", "u2">>
TxCategorySeq == <<"c1", "c2">>
TxDateSeq == <<Date(2025, 3, 5), Date(2025, 2, 5), Date(2024, 3, 5)>>
TxAmountSeq == <<5000, 12000>>
BudgetPeriodSeq == <<[month |-> 3, year |-> 2025], [month |-> 2, year |-> 2025],
                     [month |-> 3, year |-> 2024]>>
BudgetCategorySeq == <<"c1">>
BudgetAmounts == {10000}

NTxShapes == Len(UserSeq) * Len(TxCategorySeq) * Len(TxDateSeq) * Len(TxAmountSeq)
NBudgetKeys == Len(UserSeq) * Len(BudgetCategorySeq) * Len(BudgetPeriodSeq)

\* the k-th expense row shape (user, category, date, amount), k in 0 .. NTxShapes - 1
TxShape(id, k) ==
    [id |-> id,
     user_id |-> UserSeq[(k % Len(UserSeq)) + 1],
     category_id |-> TxCategorySeq[((k \div Len(UserSeq)) % Len(TxCategorySeq)) + 1],
     date |-> TxDateSeq[((k \div (Len(UserSeq) * Len(TxCategorySeq))) % Len(TxDateSeq)) + 1],
     amount |-> TxAmountSeq[(k \div (Len(UserSeq) * Len(TxCategorySeq) * Len(TxDateSeq))) + 1]]

\* the k-th budget key (user, category, month, year) with an amount
BudgetShape(k, amount) ==
    LET p == BudgetPeriodSeq[(k \div (Len(UserSeq) * Len(BudgetCategorySeq))) + 1]
    IN  [user_id |-> UserSeq[(k % Len(UserSeq)) + 1],
         category_id |-> BudgetCategorySeq[((k \div Len(UserSeq)) % Len(BudgetCategorySeq)) + 1],
         amount |-> amount,
         month |-> p.month,
         year |-> p.year]

\* tables of at most MaxTx expenses (ids in insertion order, duplicates of a shape
\* allowed) and at most MaxBudgets budgets obeying UNIQUE(user_id, category_id, month, year)
ExpenseTables ==
    UNION { { { TxShape(i, f[i]) : i \in 1..n }
              : f \in { g \in [1..n -> 0..(NTxShapes - 1)] :
                          \A i \in 1..n : \A j \in 1..n : i < j => g[i] <= g[j] } }
            : n \in 0..MaxTx }

BudgetTables ==
    UNION { { { BudgetShape(f[i], a[i]) : i \in 1..n }
              : f \in { g \in [1..n -> 0..(NBudgetKeys - 1)] :
                          \A i \in 1..n : \A j \in 1..n : i < j => g[i] < g[j] },
                a \in [1..n -> BudgetAmounts] }
            : n \in 0..MaxBudgets }

\* the calls: the defaults, another month of this year, this month of another year
RpcArgs ==
    { [user_uuid |-> u, target_month |-> a[1], target_year |-> a[2]]
      : u \in Users, a \in { <<NULL, NULL>>, << <<2>>, NULL >>, << NULL, <<2024>> >> } }

\* a store and a pending call of the function
InitAggregate ==
    /\ db_expenses \in ExpenseTables
    /\ db_budgets \in BudgetTables
    /\ now = [date |-> Today, tod |-> 1]
    /\ rpc \in { [args |-> a, rows |-> NULL, done |-> FALSE, date |-> NULL] : a \in RpcArgs }
    /\ expenses = << >>
    /\ insights = << >>
    /\ mounted = "none"
    /\ effectPending = FALSE
    /\ generatedInsights = << >>
    /\ predictions = << >>
    /\ monthlyProjection = << >>
    /\ divisors = {}
    /\ divisions = {}
    /\ lastRpc = NULL
    /\ lastBudgetOp = NULL
    /\ metrics = NULL
    /\ session = NULL
    /\ dashboard = NULL
    /\ analytics = NULL
    /\ calls = << >>

\* supabase.rpc('calculate_spending_insights', {user_uuid, target_month?, target_year?}):
\* the pending call is answered from the tables as they are
Rpc ==
    /\ ~rpc.done
    /\ rpc' = [rpc EXCEPT
                 !.rows = calculate_spending_insights(db_expenses, db_budgets, now.date,
                              rpc.args.user_uuid, rpc.args.target_month, rpc.args.target_year),
                 !.done = TRUE,
                 !.date = <<now.date>>]
    /\ UNCHANGED <<db_expenses, db_budgets, now, expenses, insights, mounted, effectPending,
                   generatedInsights, predictions, monthlyProjection, divisors, divisions,
                   lastRpc, lastBudgetOp,
                   metrics, dashVars>>

NextAggregate == Rpc

SpecAggregate == InitAggregate /\ [][NextAggregate]_vars

-----------------------------------------------------------------------------
(* The analytics components and the props they are given *)

\* .from('expenses').select(...).eq('user_id', user.id).order('date', {ascending: false})
RECURSIVE FetchExpenses(_, _)
FetchExpenses(E, user_id) ==
    LET mine == { x \in E : x.user_id = user_id }
    IN  IF mine = {} THEN << >>
        ELSE LET x == CHOOSE r \in mine :
                        \A z \in mine :
                           \/ DayNumber(r.date) > DayNumber(z.date)
                           \/ (r.date = z.date /\ r.id <= z.id)
             IN  << [amount |-> x.amount, date |-> x.date, category_id |-> x.category_id] >>
                 \o FetchExpenses(E \ {x}, user_id)

Clocks == { [date |-> Today, tod |-> 0], [date |-> Today, tod |-> 1] }

\* props as fetchAnalyticsData sets them for a user from one state of the tables
\* (tables holding that user's rows)
PropsFromStore(user_id) ==
    { [db_expenses |-> E, db_budgets |-> B, now |-> [date |-> Today, tod |-> 1],
       expenses |-> FetchExpenses(E, user_id),
       insights |-> calculate_spending_insights(E, B, Today, user_id, NULL, NULL)]
      : E \in { T \in ExpenseTables : \A x \in T : x.user_id = user_id },
        B \in { T \in BudgetTables : \A b \in T : b.user_id = user_id } }

\* rows of u1 in the current month: one dated before today, one today and one dated
\* after today (the date of an expense is the one the form was given)
DatedRows ==
    { [id |-> 1, user_id |-> "u1", category_id |-> "c1", date |-> Date(2025, 3, 5),
       amount |-> 5000],
      [id |-> 2, user_id |-> "u1", category_id |-> "c1", date |-> Date(2025, 3, 15),
       amount |-> 8000],
      [id |-> 3, user_id |-> "u1", category_id |-> "c2", date |-> Date(2025, 3, 20),
       amount |-> 10000] }

\* props as fetchAnalyticsData sets them from a table of some of these rows
PropsDatedRows(user_id) ==
    { [db_expenses |-> E, db_budgets |-> {}, now |-> [date |-> Today, tod |-> 1],
       expenses |-> FetchExpenses(E, user_id),
       insights |-> calculate_spending_insights(E, {}, Today, user_id, NULL, NULL)]
      : E \in SUBSET DatedRows }

\* summaries the aggregate can return for some tables: one row per category in name
\* order, a (total_spent, transaction_count) pair and a budget each
SpendOptions ==
    { <<0, 0>>, <<1000, 1>>, <<5000, 1>>, <<8000, 1>>, <<9000, 1>>, <<10000, 1>>,
      <<12000, 1>>, <<-3000, 1>>, <<10000, 20>>, <<15000, 21>>, <<21000, 21>> }
SummaryBudgets == {0, 10000}

SummaryRow(ec, spend, budget) ==
    [category_name |-> ec.name,
     total_spent |-> spend[1],
     budget_amount |-> budget,
     remaining_budget |-> budget - spend[1],
     transaction_count |-> spend[2]]

SummaryLists(options) ==
    LET cats == OrderByName(expense_categories)
    IN  { [k \in DOMAIN cats |-> SummaryRow(cats[k], sp[k], bu[k])]
          : sp \in [DOMAIN cats -> options], bu \in [DOMAIN cats -> SummaryBudgets] }

Expense(amount, date, category_id) ==
    [amount |-> amount, date |-> date, category_id |-> category_id]

\* fetched expense lists, newest first
ExpenseScenarios ==
    { << >>,
      << Expense(1000, Date(2025, 3, 14), "c2"), Expense(-3000, Date(2025, 3, 5), "c1") >>,
      << Expense(12000, Date(2025, 3, 14), "c1"), Expense(1000, Date(2025, 3, 5), "c2"),
         Expense(1000, Date(2025, 2, 20), "c2") >>,
      << Expense(5000, Date(2025, 3, 14), "c1"), Expense(8000, Date(2025, 3, 5), "c1") >> }

\* the options of categories with at most one transaction each
SingleTxSpendOptions == { <<0, 0>>, <<1000, 1>>, <<12000, 1>>, <<-3000, 1>> }

\* any summaries with an empty expense list, and those of few transactions with one
\* of the expense lists
PropsAnySummaries(clock) ==
    { [db_expenses |-> {}, db_budgets |-> {}, now |-> clock,
       expenses |-> << >>, insights |-> ins]
      : ins \in SummaryLists(SpendOptions) }
    \cup
    { [db_expenses |-> {}, db_budgets |-> {}, now |-> clock,
       expenses |-> exps, insights |-> ins]
      : exps \in ExpenseScenarios, ins \in SummaryLists(SingleTxSpendOptions) }

ListDateSeq == << Date(2025, 3, 15), Date(2025, 3, 8), Date(2025, 3, 5),
                 Date(2025, 3, 1), Date(2025, 2, 20) >>
ListAmounts == {5000, 6000, 8000, 12000, -3000}

\* any list of at most maxLen expenses, newest first
ExpenseLists(maxLen) ==
    UNION { { [i \in 1..n |-> Expense(a[i], ListDateSeq[f[i]], "c1")]
              : f \in { g \in [1..n -> DOMAIN ListDateSeq] :
                          \A i \in 1..n : \A j \in 1..n : i < j => g[i] <= g[j] },
                a \in [1..n -> ListAmounts] }
            : n \in 0..maxLen }

SummaryScenarios ==
    LET cats == OrderByName(expense_categories)
    IN  { [k \in DOMAIN cats |-> SummaryRow(cats[k], <<0, 0>>, 0)],
          [k \in DOMAIN cats |-> SummaryRow(cats[k], IF k = 2 THEN <<12000, 1>> ELSE <<9000, 1>>,
                                            10000)],
          [k \in DOMAIN cats |-> SummaryRow(cats[k], IF k = 1 THEN <<5000, 1>> ELSE <<15000, 21>>,
                                            IF k = 3 THEN 0 ELSE 10000)] }

\* lists with a transaction dated after today, 7 days, 14 days and 23 days before it
WindowScenarios ==
    { << Expense(6000, Date(2025, 3, 20), "c1"), Expense(5000, Date(2025, 3, 8), "c1"),
         Expense(8000, Date(2025, 3, 1), "c1"), Expense(12000, Date(2025, 2, 20), "c1") >>,
      << Expense(6000, Date(2025, 3, 20), "c1"), Expense(10000, Date(2025, 3, 8), "c1"),
         Expense(5000, Date(2025, 3, 1), "c1") >> }

\* any expense list with one of the summaries, at midnight UTC or later in the day
PropsAnyExpenses(clocks) ==
    { [db_expenses |-> {}, db_budgets |-> {}, now |-> c, expenses |-> exps, insights |-> ins]
      : c \in clocks, exps \in ExpenseLists(MaxTx) \cup WindowScenarios,
        ins \in SummaryScenarios }

\* other days of the month: the 15th of a 30-day month, the last day of a month, the
\* first day of a month
OtherClocks ==
    { [date |-> Date(2025, 4, 15), tod |-> 1],
      [date |-> Date(2025, 2, 28), tod |-> 1],
      [date |-> Date(2025, 3, 1), tod |-> 1] }

\* dates around a clock, newest first: the last day of its month, its day, the first
\* of its month, a day of the month before
ClockDateSeq(c) ==
    << Date(c.date.y, c.date.m, DaysInMonth(c.date.y, c.date.m)),
       c.date,
       Date(c.date.y, c.date.m, 1),
       Date(c.date.y, c.date.m - 1, 20) >>
ClockAmounts == {10000, 20000}

\* any list of at most MaxTx expenses on those dates, newest first
ClockExpenseLists(c) ==
    UNION { { [i \in 1..n |-> Expense(a[i], ClockDateSeq(c)[f[i]], "c1")]
              : f \in { g \in [1..n -> DOMAIN ClockDateSeq(c)] :
                          \A i \in 1..n : \A j \in 1..n : i < j => g[i] <= g[j] },
                a \in [1..n -> ClockAmounts] }
            : n \in 0..MaxTx }

ClockSpendOptions ==
    { <<0, 0>>, <<4500, 1>>, <<6000, 1>>, <<10000, 1>>, <<11000, 1>>, <<30000, 2>> }

\* summaries with spending in "Food & Dining" and possibly in "Education", each with
\* or without a budget
ClockSummaryLists ==
    LET cats == OrderByName(expense_categories)
    IN  { [k \in DOMAIN cats |->
             SummaryRow(cats[k],
                        IF cats[k].id = "c1" THEN sp
                        ELSE IF cats[k].id = "c3" THEN other ELSE <<0, 0>>,
                        IF cats[k].id = "c2" THEN 0 ELSE bu[k])]
          : sp \in ClockSpendOptions, other \in { <<0, 0>>, <<6000, 1>> },
            bu \in [DOMAIN cats -> SummaryBudgets] }

\* the props on another day of the month
PropsOtherClocks(clocks) ==
    UNION { { [db_expenses |-> {}, db_budgets |-> {}, now |-> c,
               expenses |-> exps, insights |-> ins]
              : exps \in ClockExpenseLists(c), ins \in ClockSummaryLists }
            : c \in clocks }

\* setExpenses(expensesData) and setInsights(insightsData) on the tables they were read from
Fetched(p) ==
    /\ db_expenses = p.db_expenses
    /\ db_budgets = p.db_budgets
    /\ now = p.now
    /\ expenses = p.expenses
    /\ insights = p.insights

\* AnalyticsDashboard has fetched its data and shows the overview, the insights or the
\* predictions tab
InitAnalytics ==
    /\ \/ \E p \in PropsFromStore("u1") : Fetched(p)
       \/ \E p \in PropsDatedRows("u1") : Fetched(p)
       \/ \E p \in PropsAnySummaries([date |-> Today, tod |-> 1]) : Fetched(p)
       \/ \E p \in PropsAnyExpenses(Clocks) : Fetched(p)
       \/ \E p \in PropsOtherClocks(OtherClocks) : Fetched(p)
    /\ rpc = [args |-> [user_uuid |-> "u1", target_month |-> NULL, target_year |-> NULL],
              rows |-> insights, done |-> TRUE, date |-> <<now.date>>]
    /\ mounted \in {"DataInsights", "PredictiveAnalytics", "AdvancedMetrics"}
    /\ effectPending = TRUE
    /\ generatedInsights = << >>
    /\ predictions = << >>
    /\ monthlyProjection = << >>
    /\ divisors = {}
    /\ divisions = {}
    /\ lastRpc = NULL
    /\ lastBudgetOp = NULL
    /\ metrics = NULL
    /\ session = NULL
    /\ dashboard = NULL
    /\ analytics = NULL
    /\ calls = << >>

\* DataInsights: useEffect(() => { generateInsights(); }, [expenses, insights])
GenerateInsightsEffect ==
    /\ mounted = "DataInsights"
    /\ effectPending
    /\ generatedInsights' = generateInsights(expenses, insights, now)
    /\ divisors' = BudgetAnalysisDivisors(insights)
    /\ divisions' = InsightDivisions(expenses, insights, now)
    /\ effectPending' = FALSE
    /\ UNCHANGED <<db_expenses, db_budgets, now, rpc, expenses, insights, mounted,
                   predictions, monthlyProjection, lastRpc, lastBudgetOp,
                   metrics, dashVars>>

\* PredictiveAnalytics: useEffect(() => { generatePredictions();
\*                                       generateMonthlyProjection(); }, [expenses, insights])
GeneratePredictionsEffect ==
    /\ mounted = "PredictiveAnalytics"
    /\ effectPending
    /\ predictions' = generatePredictions(expenses, insights, now)
    /\ monthlyProjection' = generateMonthlyProjection(expenses, insights, now)
    /\ divisors' = PredictionDivisors(insights)
    /\ divisions' = PredictionDivisions(expenses, insights, now)
    /\ effectPending' = FALSE
    /\ UNCHANGED <<db_expenses, db_budgets, now, rpc, expenses, insights, mounted,
                   generatedInsights, lastRpc, lastBudgetOp,
                   metrics, dashVars>>

\* AdvancedMetrics renders: const metrics = calculateMetrics()
RenderAdvancedMetrics ==
    /\ mounted = "AdvancedMetrics"
    /\ effectPending
    /\ metrics' = <<calculateMetrics(expenses, insights, now)>>
    /\ effectPending' = FALSE
    /\ UNCHANGED <<db_expenses, db_budgets, now, rpc, expenses, insights, mounted,
                   generatedInsights, predictions, monthlyProjection, divisors, divisions,
                   lastRpc, lastBudgetOp, dashVars>>

NextAnalytics == GenerateInsightsEffect \/ GeneratePredictionsEffect \/ RenderAdvancedMetrics

SpecAnalytics == InitAnalytics /\ [][NextAnalytics]_vars

-----------------------------------------------------------------------------
(* The Dashboard: budgets are written, the clock advances, the aggregate is called *)

MaxDays == 2        \* days the clock advances from FirstDay on

FirstDay == Date(2025, 3, 30)

NextDay(dt) ==
    IF dt.d < DaysInMonth(dt.y, dt.m) THEN Date(dt.y, dt.m, dt.d + 1)
    ELSE IF dt.m < 12 THEN Date(dt.y, dt.m + 1, 1)
    ELSE Date(dt.y + 1, 1, 1)

\* the expenses table the Dashboard starts on: one transaction of u1 dated on the last
\* day of the month
SeedExpenseTables ==
    { { [id |-> 1, user_id |-> "u1", category_id |-> "c1", date |-> Date(2025, 3, 31),
         amount |-> 5000] } }

\* the category and the amounts of the budget dialog
DialogCategories == {"c1"}
DialogAmounts == {10000, 20000}

\* UNIQUE(user_id, category_id, month, year)
BudgetKey(b) == <<b.user_id, b.category_id, b.month, b.year>>

\* mutant: a plain insert
Upsert_Insert(B, row) == B \cup {row}

\* .upsert(row, { onConflict: 'user_id,category_id,month,year' }):
\* INSERT ... ON CONFLICT (user_id, category_id, month, year) DO UPDATE
Upsert(B, row) == { b \in B : BudgetKey(b) # BudgetKey(row) } \cup {row}

\* a new call takes the place of `rpc`; the call it replaces is kept when it was answered
PendingRpc(a) == [args |-> a, rows |-> NULL, done |-> FALSE, date |-> NULL]

\* fetchData(): the rpc with user_uuid alone is sent
fetchData(u) ==
    /\ rpc' = PendingRpc([user_uuid |-> u, target_month |-> NULL, target_year |-> NULL])
    /\ lastRpc' = IF rpc.done THEN <<rpc>> ELSE lastRpc
    /\ UNCHANGED <<db_expenses, db_budgets, now, expenses, insights, mounted, effectPending,
                   generatedInsights, predictions, monthlyProjection, divisors, divisions,
                   lastBudgetOp,
                   metrics, dashVars>>

\* the function called with target_month
RpcForMonth(u) ==
    /\ rpc' = PendingRpc([user_uuid |-> u, target_month |-> <<3>>, target_year |-> NULL])
    /\ lastRpc' = IF rpc.done THEN <<rpc>> ELSE lastRpc
    /\ UNCHANGED <<db_expenses, db_budgets, now, expenses, insights, mounted, effectPending,
                   generatedInsights, predictions, monthlyProjection, divisors, divisions,
                   lastBudgetOp,
                   metrics, dashVars>>

\* handleSetBudget for the signed-in user u: the upsert for the current month and year,
\* then fetchData()
handleSetBudget(u, budgetCategory, budgetAmount) ==
    LET row == [user_id |-> u, category_id |-> budgetCategory, amount |-> budgetAmount,
                month |-> now.date.m, year |-> now.date.y]
        old == { b \in db_budgets : BudgetKey(b) = BudgetKey(row) }
    IN  /\ db_budgets' = Upsert(db_budgets, row)
        /\ lastBudgetOp' = << [op |-> "set", user_id |-> u, category_id |-> budgetCategory,
                               month |-> now.date.m, year |-> now.date.y,
                               amount |-> budgetAmount,
                               replaced |-> old # {}] >>
        /\ rpc' = PendingRpc([user_uuid |-> u, target_month |-> NULL, target_year |-> NULL])
        /\ lastRpc' = NULL
        /\ UNCHANGED <<db_expenses, now, expenses, insights, mounted, effectPending,
                       generatedInsights, predictions, monthlyProjection, divisors, divisions,
                   metrics, dashVars>>

\* handleDeleteBudget for the signed-in user u: the delete for the current month and
\* year, then fetchData()
handleDeleteBudget(u, categoryId) ==
    LET old == { b \in db_budgets : /\ b.user_id = u
                                     /\ b.category_id = categoryId
                                     /\ b.month = now.date.m
                                     /\ b.year = now.date.y }
    IN  /\ db_budgets' = db_budgets \ old
        /\ lastBudgetOp' = << [op |-> "delete", user_id |-> u, category_id |-> categoryId,
                               month |-> now.date.m, year |-> now.date.y,
                               replaced |-> old # {}] >>
        /\ rpc' = PendingRpc([user_uuid |-> u, target_month |-> NULL, target_year |-> NULL])
        /\ lastRpc' = NULL
        /\ UNCHANGED <<db_expenses, now, expenses, insights, mounted, effectPending,
                       generatedInsights, predictions, monthlyProjection, divisors, divisions,
                   metrics, dashVars>>

\* midnight passes
Tick ==
    /\ DayNumber(now.date) - DayNumber(FirstDay) < MaxDays
    /\ now' = [now EXCEPT !.date = NextDay(now.date)]
    /\ UNCHANGED <<db_expenses, db_budgets, rpc, expenses, insights, mounted, effectPending,
                   generatedInsights, predictions, monthlyProjection, divisors, divisions,
                   lastRpc, lastBudgetOp,
                   metrics, dashVars>>

\* the Dashboard is mounted and its first fetchData() is under way
Init ==
    /\ db_expenses \in SeedExpenseTables
    /\ db_budgets = {}
    /\ now = [date |-> FirstDay, tod |-> 1]
    /\ rpc \in { PendingRpc([user_uuid |-> u, target_month |-> NULL, target_year |-> NULL])
                 : u \in Users }
    /\ expenses = << >>
    /\ insights = << >>
    /\ mounted = "Dashboard"
    /\ effectPending = FALSE
    /\ generatedInsights = << >>
    /\ predictions = << >>
    /\ monthlyProjection = << >>
    /\ divisors = {}
    /\ divisions = {}
    /\ lastRpc = NULL
    /\ lastBudgetOp = NULL
    /\ metrics = NULL
    /\ session = NULL
    /\ dashboard = NULL
    /\ analytics = NULL
    /\ calls = << >>

Next ==
    \/ Rpc
    \/ \E u \in Users : fetchData(u)
    \/ \E u \in Users : RpcForMonth(u)
    \/ \E u \in Users, c \in DialogCategories, a \in DialogAmounts : handleSetBudget(u, c, a)
    \/ \E u \in Users, c \in DialogCategories : handleDeleteBudget(u, c)
    \/ Tick

Spec == Init /\ [][Next]_vars

-----------------------------------------------------------------------------
(* The Dashboard step by step: each async handler between its awaits, the loading *)
(* flag, the session, and the AnalyticsDashboard the Dashboard mounts             *)

MaxCalls == 2       \* async handlers under way at the same time
MaxIds == 3         \* ids public.expenses hands out: 1 and 2 are seeded, the rest inserted

\* the variables of the analytics components, which no Dashboard handler touches
analysisVars == <<now, rpc, mounted, effectPending, generatedInsights, predictions,
                  monthlyProjection, divisors, divisions, lastRpc, lastBudgetOp, metrics>>

\* the expenses table the Dashboard starts on: one transaction of each user
DashboardSeedExpenses ==
    { [id |-> 1, user_id |-> "u1", category_id |-> "c1", date |-> Date(2025, 3, 10),
       amount |-> 5000],
      [id |-> 2, user_id |-> "u2", category_id |-> "c2", date |-> Date(2025, 3, 12),
       amount |-> 7000] }

\* two transactions of u1 and one of u2
TransactionsSeedExpenses ==
    DashboardSeedExpenses \cup
    { [id |-> 3, user_id |-> "u1", category_id |-> "c2", date |-> Date(2025, 3, 14),
       amount |-> 2500] }

\* the values typed into the budget dialog and the expense form; "" and 0 stand for a
\* field left empty
FormCategories == {"", "c1"}
FormAmounts == {0, 2500}

\* the row level security policies of expenses and budgets: auth.uid() = user_id
Policy(row, uid) == uid # NULL /\ uid[1] = row.user_id

\* mutant: the delete without .eq('user_id', user.id)
DeleteTransactionRows_ById(E, transactionId, user_id, uid) ==
    { x \in E : x.id = transactionId /\ Policy(x, uid) }

\* .from('expenses').delete().eq('id', transactionId).eq('user_id', user.id), under the
\* policy "Users can delete their own expenses": the rows it removes
DeleteTransactionRows(E, transactionId, user_id, uid) ==
    { x \in E : x.id = transactionId /\ x.user_id = user_id /\ Policy(x, uid) }

\* .from('budgets').delete().eq('user_id', ...).eq('category_id', ...).eq('month', ...)
\* .eq('year', ...), under the policy "Users can delete their own budgets"
DeleteBudgetRows(B, user_id, categoryId, today, uid) ==
    { b \in B : /\ b.user_id = user_id
                /\ b.category_id = categoryId
                /\ b.month = today.m
                /\ b.year = today.y
                /\ Policy(b, uid) }

\* .limit(n)
Limit(rows, n) == IF Len(rows) <= n THEN rows ELSE SubSeq(rows, 1, n)

\* .from('expenses').select('id, amount, description, date, category_id')
\* .eq('user_id', user.id).order('date', {ascending: false}), under the policy
\* "Users can view their own expenses"
RECURSIVE SelectTransactions(_, _, _)
SelectTransactions(E, user_id, uid) ==
    LET mine == { x \in E : x.user_id = user_id /\ Policy(x, uid) }
    IN  IF mine = {} THEN << >>
        ELSE LET x == CHOOSE r \in mine :
                        \A z \in mine :
                           \/ DayNumber(r.date) > DayNumber(z.date)
                           \/ (r.date = z.date /\ r.id <= z.id)
             IN  << [id |-> x.id, amount |-> x.amount, date |-> x.date,
                     category_id |-> x.category_id] >>
                 \o SelectTransactions(E \ {x}, user_id, uid)

\* an async handler under way: where it stands, the user getUser() gave it, the
\* arguments it was called with, the handler whose write called it (fetchData), whether
\* the component that started it is still mounted and the rows it holds in a local
Call(handler, cause) ==
    [handler |-> handler, pc |-> "getUser", user |-> NULL, id |-> 0, category |-> "",
     amount |-> 0, cause |-> cause, live |-> TRUE, data |-> << >>]

Remove(cs, k) == [i \in 1..(Len(cs) - 1) |-> IF i < k THEN cs[i] ELSE cs[i + 1]]

Replace(cs, k, c) == [cs EXCEPT ![k] = c]

\* setState of an unmounted component has no effect: the calls of an AnalyticsDashboard
\* that is unmounted
Orphan(cs) ==
    [i \in DOMAIN cs |-> IF cs[i].handler = "fetchAnalyticsData"
                         THEN [cs[i] EXCEPT !.live = FALSE] ELSE cs[i]]

\* the Dashboard renders its AnalyticsDashboard whenever it does not show its spinner;
\* the child is followed in the specifications that start with `mounted` naming it, the
\* others follow the Dashboard alone
Visible(d) == ~d.loading /\ mounted = "AnalyticsDashboard"

\* the Dashboard state becomes d and the handlers under way cs: an AnalyticsDashboard
\* that comes into view mounts with its initial state and its effect calls
\* fetchAnalyticsData; one that goes out of view loses its state
Render(d, cs) ==
    /\ dashboard' = d
    /\ IF Visible(dashboard) = Visible(d)
       THEN /\ calls' = cs
            /\ UNCHANGED <<analytics, expenses, insights>>
       ELSE IF Visible(d)
       THEN /\ calls' = Append(cs, Call("fetchAnalyticsData", "mount"))
            /\ analytics' = <<[loading |-> TRUE, categories |-> << >>]>>
            /\ expenses' = << >>
            /\ insights' = << >>
       ELSE /\ calls' = Orphan(cs)
            /\ analytics' = NULL
            /\ expenses' = << >>
            /\ insights' = << >>

\* the handler k of kind h stands at pc
At(k, h, pc) ==
    /\ k \in DOMAIN calls
    /\ calls[k].handler = h
    /\ calls[k].pc = pc

\* what the buttons of the Dashboard need: it is rendered, and the model has room for
\* another handler
CanClick == ~dashboard.loading /\ Len(calls) < MaxCalls

\* the toasts, by their variant
ToastDefault == "default"
ToastDestructive == "destructive"

(* the session *)

\* Auth.handleSignIn: signInWithPassword succeeds
SignIn(u) ==
    /\ session = NULL
    /\ session' = <<u>>
    /\ UNCHANGED <<db_expenses, db_budgets, dashboard, analytics, calls, expenses, insights,
                   analysisVars>>

\* the session ends: getUser() gives no user from here on
SessionEnds ==
    /\ session # NULL
    /\ session' = NULL
    /\ UNCHANGED <<db_expenses, db_budgets, dashboard, analytics, calls, expenses, insights,
                   analysisVars>>

(* Dashboard.fetchData *)

\* mutant: the handler ends without calling fetchData()
StartFetchData_NoFetch(d, cs, cause) == Render(d, cs)

\* fetchData() up to its first await, called by a handler or by the mount effect:
\* setLoading(true) and the request of getUser
StartFetchData(d, cs, cause) ==
    Render([d EXCEPT !.loading = TRUE], Append(cs, Call("fetchData", cause)))

\* getUser() answers: without a user the function returns through finally
fetchData_getUser(k) ==
    /\ At(k, "fetchData", "getUser")
    /\ IF session = NULL
       THEN Render([dashboard EXCEPT !.loading = FALSE], Remove(calls, k))
       ELSE Render(dashboard,
                   Replace(calls, k, [calls[k] EXCEPT !.user = session, !.pc = "categories"]))
    /\ UNCHANGED <<db_expenses, db_budgets, session, analysisVars>>

\* a read of fetchData answers with an error: catch shows the toast, finally ends loading
fetchData_catch(k) ==
    Render([dashboard EXCEPT !.toast = ToastDestructive, !.loading = FALSE], Remove(calls, k))

\* the categories read answers
fetchData_categories(k) ==
    /\ At(k, "fetchData", "categories")
    /\ \E ok \in BOOLEAN :
          IF ok
          THEN Render([dashboard EXCEPT !.categories = OrderByName(expense_categories)],
                      Replace(calls, k, [calls[k] EXCEPT !.pc = "rpc"]))
          ELSE fetchData_catch(k)
    /\ UNCHANGED <<db_expenses, db_budgets, session, analysisVars>>

\* the rpc answers: calculate_spending_insights with user_uuid alone
fetchData_rpc(k) ==
    /\ At(k, "fetchData", "rpc")
    /\ \E ok \in BOOLEAN :
          IF ok
          THEN Render([dashboard EXCEPT !.spendingInsights =
                           calculate_spending_insights(db_expenses, db_budgets, now.date,
                                                       calls[k].user[1], NULL, NULL)],
                      Replace(calls, k, [calls[k] EXCEPT !.pc = "transactions"]))
          ELSE fetchData_catch(k)
    /\ UNCHANGED <<db_expenses, db_budgets, session, analysisVars>>

\* the transactions read answers; the function ends through finally
fetchData_transactions(k) ==
    /\ At(k, "fetchData", "transactions")
    /\ \E ok \in BOOLEAN :
          IF ok
          THEN Render([dashboard EXCEPT
                          !.recentTransactions =
                              Limit(SelectTransactions(db_expenses, calls[k].user[1], session),
                                    50),
                          !.loading = FALSE],
                      Remove(calls, k))
          ELSE fetchData_catch(k)
    /\ UNCHANGED <<db_expenses, db_budgets, session, analysisVars>>

(* Dashboard.handleSetBudget *)

\* the button "Set Budget": the validation, then the request of getUser
handleSetBudget_click(budgetCategory, budgetAmount) ==
    /\ CanClick
    /\ IF budgetCategory = "" \/ budgetAmount = 0
       THEN Render([dashboard EXCEPT !.toast = ToastDestructive], calls)
       ELSE Render(dashboard,
                   Append(calls, [Call("handleSetBudget", "") EXCEPT
                                     !.category = budgetCategory, !.amount = budgetAmount]))
    /\ UNCHANGED <<db_expenses, db_budgets, session, analysisVars>>

\* getUser() answers: without a user the handler returns
handleSetBudget_getUser(k) ==
    /\ At(k, "handleSetBudget", "getUser")
    /\ IF session = NULL
       THEN Render(dashboard, Remove(calls, k))
       ELSE Render(dashboard,
                   Replace(calls, k, [calls[k] EXCEPT !.user = session, !.pc = "write"]))
    /\ UNCHANGED <<db_expenses, db_budgets, session, analysisVars>>

\* the upsert answers: an error when the policies reject the row or the request fails;
\* after a success the toast and fetchData()
handleSetBudget_upsert(k) ==
    LET c == calls[k]
        row == [user_id |-> c.user[1], category_id |-> c.category, amount |-> c.amount,
                month |-> now.date.m, year |-> now.date.y]
    IN  /\ At(k, "handleSetBudget", "write")
        /\ \E ok \in BOOLEAN :
              IF ok /\ Policy(row, session)
              THEN /\ db_budgets' = Upsert(db_budgets, row)
                   /\ StartFetchData([dashboard EXCEPT !.toast = ToastDefault],
                                     Remove(calls, k), "handleSetBudget")
              ELSE /\ Render([dashboard EXCEPT !.toast = ToastDestructive], Remove(calls, k))
                   /\ UNCHANGED db_budgets
        /\ UNCHANGED <<db_expenses, session, analysisVars>>

(* Dashboard.handleDeleteBudget *)

\* c.id of the category found by name, '' when the list holds none of that name
CategoryIdOf(categories, name) ==
    IF \E i \in DOMAIN categories : categories[i].name = name
    THEN categories[CHOOSE i \in DOMAIN categories : categories[i].name = name].id
    ELSE ""

\* the trash button of a category shown with a budget
handleDeleteBudget_click(i) ==
    /\ CanClick
    /\ i \in DOMAIN dashboard.spendingInsights
    /\ dashboard.spendingInsights[i].budget_amount > 0
    /\ Render(dashboard,
              Append(calls, [Call("handleDeleteBudget", "") EXCEPT
                                !.category = CategoryIdOf(dashboard.categories,
                                                          dashboard.spendingInsights[i].category_name)]))
    /\ UNCHANGED <<db_expenses, db_budgets, session, analysisVars>>

\* getUser() answers: without a user the toast and return
handleDeleteBudget_getUser(k) ==
    /\ At(k, "handleDeleteBudget", "getUser")
    /\ IF session = NULL
       THEN Render([dashboard EXCEPT !.toast = ToastDestructive], Remove(calls, k))
       ELSE Render(dashboard,
                   Replace(calls, k, [calls[k] EXCEPT !.user = session, !.pc = "write"]))
    /\ UNCHANGED <<db_expenses, db_budgets, session, analysisVars>>

\* the delete answers; after a success the toast and fetchData()
handleDeleteBudget_delete(k) ==
    /\ At(k, "handleDeleteBudget", "write")
    /\ \E ok \in BOOLEAN :
          IF ok
          THEN /\ db_budgets' = db_budgets \ DeleteBudgetRows(db_budgets, calls[k].user[1],
                                                            calls[k].category, now.date,
                                                            session)
               /\ StartFetchData([dashboard EXCEPT !.toast = ToastDefault],
                                 Remove(calls, k), "handleDeleteBudget")
          ELSE /\ Render([dashboard EXCEPT !.toast = ToastDestructive],
                         Remove(calls, k))
               /\ UNCHANGED db_budgets
    /\ UNCHANGED <<db_expenses, session, analysisVars>>

(* Dashboard.handleDeleteTransaction *)

\* the trash button of a transaction of the list shown
handleDeleteTransaction_click(i) ==
    /\ CanClick
    /\ i \in DOMAIN dashboard.recentTransactions
    /\ Render(dashboard,
              Append(calls, [Call("handleDeleteTransaction", "") EXCEPT
                                !.id = dashboard.recentTransactions[i].id]))
    /\ UNCHANGED <<db_expenses, db_budgets, session, analysisVars>>

\* getUser() answers: without a user the toast and return
handleDeleteTransaction_getUser(k) ==
    /\ At(k, "handleDeleteTransaction", "getUser")
    /\ IF session = NULL
       THEN Render([dashboard EXCEPT !.toast = ToastDestructive], Remove(calls, k))
       ELSE Render(dashboard,
                   Replace(calls, k, [calls[k] EXCEPT !.user = session, !.pc = "write"]))
    /\ UNCHANGED <<db_expenses, db_budgets, session, analysisVars>>

\* the delete answers; after a success the toast and fetchData()
handleDeleteTransaction_delete(k) ==
    /\ At(k, "handleDeleteTransaction", "write")
    /\ \E ok \in BOOLEAN :
          IF ok
          THEN /\ db_expenses' = db_expenses \ DeleteTransactionRows(db_expenses, calls[k].id,
                                                                   calls[k].user[1], session)
               /\ StartFetchData([dashboard EXCEPT !.toast = ToastDefault],
                                 Remove(calls, k), "handleDeleteTransaction")
          ELSE /\ Render([dashboard EXCEPT !.toast = ToastDestructive],
                         Remove(calls, k))
               /\ UNCHANGED db_expenses
    /\ UNCHANGED <<db_budgets, session, analysisVars>>

(* FileUpload, ManualExpenseForm.handleSubmit and Dashboard.handleFileUpload *)

\* the buttons that open the FileUpload dialog, and its onClose
SetShowFileUpload(show) ==
    /\ ~dashboard.loading
    /\ dashboard.showFileUpload # show
    /\ Render([dashboard EXCEPT !.showFileUpload = show], calls)
    /\ UNCHANGED <<db_expenses, db_budgets, session, analysisVars>>

\* handleFileUpload: the dialog closes and fetchData() is called
handleFileUpload(d, cs, cause) ==
    StartFetchData([d EXCEPT !.showFileUpload = FALSE], cs, cause)

\* FileUpload.handleUpload ends: the simulated upload calls onUploadComplete
handleUpload ==
    /\ CanClick
    /\ dashboard.showFileUpload
    /\ handleFileUpload(dashboard, calls, "handleUpload")
    /\ UNCHANGED <<db_expenses, db_budgets, session, analysisVars>>

\* an id gen_random_uuid() may give: one no row, no list shown and no handler holds
FreshIds ==
    { n \in 1..MaxIds :
        /\ \A x \in db_expenses : x.id # n
        /\ \A i \in DOMAIN dashboard.recentTransactions :
              dashboard.recentTransactions[i].id # n
        /\ \A i \in DOMAIN calls : calls[i].id # n }

\* the form is submitted: the validation, then the request of getUser
handleSubmit_click(amount, categoryId) ==
    /\ CanClick
    /\ dashboard.showFileUpload
    /\ IF amount = 0 \/ categoryId = ""
       THEN Render([dashboard EXCEPT !.toast = ToastDestructive], calls)
       ELSE Render(dashboard,
                   Append(calls, [Call("handleSubmit", "") EXCEPT
                                     !.category = categoryId, !.amount = amount]))
    /\ UNCHANGED <<db_expenses, db_budgets, session, analysisVars>>

\* getUser() answers: without a user the toast and return
handleSubmit_getUser(k) ==
    /\ At(k, "handleSubmit", "getUser")
    /\ IF session = NULL
       THEN Render([dashboard EXCEPT !.toast = ToastDestructive], Remove(calls, k))
       ELSE Render(dashboard,
                   Replace(calls, k, [calls[k] EXCEPT !.user = session, !.pc = "write"]))
    /\ UNCHANGED <<db_expenses, db_budgets, session, analysisVars>>

\* the insert answers: an error when the policy rejects the row or the request fails;
\* after a success the toast and onExpenseAdded, which is handleFileUpload
handleSubmit_insert(k) ==
    LET c == calls[k]
    IN  /\ At(k, "handleSubmit", "write")
        /\ \E ok \in BOOLEAN :
              IF ok /\ Policy([user_id |-> c.user[1]], session)
              THEN /\ FreshIds # {}
                   /\ db_expenses' = db_expenses \cup
                         { [id |-> CHOOSE n \in FreshIds : TRUE, user_id |-> c.user[1],
                            category_id |-> c.category, date |-> now.date,
                            amount |-> c.amount] }
                   /\ handleFileUpload([dashboard EXCEPT !.toast = ToastDefault],
                                       Remove(calls, k), "handleSubmit")
              ELSE /\ Render([dashboard EXCEPT !.toast = ToastDestructive],
                             Remove(calls, k))
                   /\ UNCHANGED db_expenses
        /\ UNCHANGED <<db_budgets, session, analysisVars>>

(* AnalyticsDashboard.fetchAnalyticsData *)

\* the button "Refresh", rendered once loading is false: fetchAnalyticsData() up to its
\* first await
Refresh ==
    /\ analytics # NULL
    /\ ~analytics[1].loading
    /\ Len(calls) < MaxCalls
    /\ analytics' = <<[analytics[1] EXCEPT !.loading = TRUE]>>
    /\ calls' = Append(calls, Call("fetchAnalyticsData", "Refresh"))
    /\ UNCHANGED <<db_expenses, db_budgets, session, dashboard, expenses, insights,
                   analysisVars>>

\* finally { setLoading(false) } of the call k, whose component may be gone
fetchAnalyticsData_finally(k) ==
    /\ calls' = Remove(calls, k)
    /\ analytics' = IF calls[k].live THEN <<[analytics[1] EXCEPT !.loading = FALSE]>>
                    ELSE analytics

\* mutant: setLoading(false) at the end of try instead of in finally
fetchAnalyticsData_catch_NoFinally(k) ==
    /\ dashboard' = [dashboard EXCEPT !.toast = ToastDestructive]
    /\ calls' = Remove(calls, k)
    /\ UNCHANGED <<analytics, expenses, insights>>

\* a read of fetchAnalyticsData answers with an error: catch shows the toast
fetchAnalyticsData_catch(k) ==
    /\ dashboard' = [dashboard EXCEPT !.toast = ToastDestructive]
    /\ fetchAnalyticsData_finally(k)
    /\ UNCHANGED <<expenses, insights>>

\* getUser() answers: without a user the function returns through finally
fetchAnalyticsData_getUser(k) ==
    /\ At(k, "fetchAnalyticsData", "getUser")
    /\ IF session = NULL
       THEN fetchAnalyticsData_finally(k)
       ELSE /\ calls' = Replace(calls, k,
                                [calls[k] EXCEPT !.user = session, !.pc = "expenses"])
            /\ UNCHANGED analytics
    /\ UNCHANGED <<db_expenses, db_budgets, session, dashboard, expenses, insights,
                   analysisVars>>

\* the expenses read answers, under the policy "Users can view their own expenses"
fetchAnalyticsData_expenses(k) ==
    /\ At(k, "fetchAnalyticsData", "expenses")
    /\ \E ok \in BOOLEAN :
          IF ok
          THEN /\ calls' = Replace(calls, k,
                              [calls[k] EXCEPT
                                  !.data = FetchExpenses({ x \in db_expenses :
                                                            Policy(x, session) },
                                                         calls[k].user[1]),
                                  !.pc = "categories"])
               /\ UNCHANGED <<analytics, dashboard, expenses, insights>>
          ELSE fetchAnalyticsData_catch(k)
    /\ UNCHANGED <<db_expenses, db_budgets, session, analysisVars>>

\* the categories read answers
fetchAnalyticsData_categories(k) ==
    /\ At(k, "fetchAnalyticsData", "categories")
    /\ \E ok \in BOOLEAN :
          IF ok
          THEN /\ calls' = Replace(calls, k, [calls[k] EXCEPT !.pc = "rpc"])
               /\ UNCHANGED <<analytics, dashboard, expenses, insights>>
          ELSE fetchAnalyticsData_catch(k)
    /\ UNCHANGED <<db_expenses, db_budgets, session, analysisVars>>

\* the rpc answers: after the third read the three states are set, then finally
fetchAnalyticsData_rpc(k) ==
    /\ At(k, "fetchAnalyticsData", "rpc")
    /\ \E ok \in BOOLEAN :
          IF ok
          THEN /\ calls' = Remove(calls, k)
               /\ IF calls[k].live
                  THEN /\ expenses' = calls[k].data
                       /\ insights' = calculate_spending_insights(db_expenses, db_budgets,
                                                                  now.date, calls[k].user[1],
                                                                  NULL, NULL)
                       /\ analytics' = <<[loading |-> FALSE,
                                          categories |-> OrderByName(expense_categories)]>>
                  ELSE UNCHANGED <<expenses, insights, analytics>>
               /\ UNCHANGED dashboard
          ELSE fetchAnalyticsData_catch(k)
    /\ UNCHANGED <<db_expenses, db_budgets, session, analysisVars>>

(* the specification *)

\* the Dashboard has mounted over the expenses table E with one of the sessions: its
\* initial state, and the effect has called fetchData(); child is the component followed
\* besides the Dashboard
InitMounted(E, sessions, child) ==
    /\ db_expenses = E
    /\ db_budgets = {}
    /\ now = [date |-> Date(2025, 3, 15), tod |-> 1]
    /\ session \in sessions
    /\ dashboard = [loading |-> TRUE, categories |-> << >>, spendingInsights |-> << >>,
                    recentTransactions |-> << >>, showFileUpload |-> FALSE,
                    toast |-> ""]
    /\ analytics = NULL
    /\ calls = << Call("fetchData", "mount") >>
    /\ expenses = << >>
    /\ insights = << >>
    /\ rpc = NULL
    /\ mounted = child
    /\ effectPending = FALSE
    /\ generatedInsights = << >>
    /\ predictions = << >>
    /\ monthlyProjection = << >>
    /\ divisors = {}
    /\ divisions = {}
    /\ lastRpc = NULL
    /\ lastBudgetOp = NULL
    /\ metrics = NULL

Sessions == {NULL} \cup { <<u>> : u \in Users }

\* u1 has opened the Dashboard, signed in or not
InitDashboard == InitMounted(DashboardSeedExpenses, {NULL, <<"u1">>}, "Dashboard")

\* the Dashboard is opened over two transactions of u1 and one of u2
InitTransactions == InitMounted(TransactionsSeedExpenses, Sessions, "Dashboard")

\* u1 has opened the Dashboard, signed in or not, and its AnalyticsDashboard is followed
InitLoading == InitMounted(DashboardSeedExpenses, {NULL, <<"u1">>}, "AnalyticsDashboard")

\* an await of the fetchData call k is answered
FetchDataStep(k) ==
    \/ fetchData_getUser(k)
    \/ fetchData_categories(k)
    \/ fetchData_rpc(k)
    \/ fetchData_transactions(k)

\* an await of the handler k, one that writes, is answered
WriteStep(k) ==
    \/ handleSetBudget_getUser(k)
    \/ handleSetBudget_upsert(k)
    \/ handleDeleteBudget_getUser(k)
    \/ handleDeleteBudget_delete(k)
    \/ handleDeleteTransaction_getUser(k)
    \/ handleDeleteTransaction_delete(k)
    \/ handleSubmit_getUser(k)
    \/ handleSubmit_insert(k)

\* an await of the handleDeleteTransaction call k is answered
DeleteTransactionStep(k) ==
    \/ handleDeleteTransaction_getUser(k)
    \/ handleDeleteTransaction_delete(k)

\* an await of the fetchAnalyticsData call k is answered
FetchAnalyticsDataStep(k) ==
    \/ fetchAnalyticsData_getUser(k)
    \/ fetchAnalyticsData_expenses(k)
    \/ fetchAnalyticsData_categories(k)
    \/ fetchAnalyticsData_rpc(k)

\* the Dashboard alone: the user writes through its dialogs, and the session may end
NextDashboard ==
    \/ \E k \in 1..MaxCalls : FetchDataStep(k)
    \/ \E k \in 1..MaxCalls : WriteStep(k)
    \/ \E c \in FormCategories, a \in FormAmounts : handleSetBudget_click(c, a)
    \/ \E i \in DOMAIN dashboard.spendingInsights : handleDeleteBudget_click(i)
    \/ \E i \in DOMAIN dashboard.recentTransactions : handleDeleteTransaction_click(i)
    \/ \E show \in BOOLEAN : SetShowFileUpload(show)
    \/ handleUpload
    \/ \E a \in FormAmounts, c \in FormCategories : handleSubmit_click(a, c)
    \/ SessionEnds

SpecDashboard == InitDashboard /\ [][NextDashboard]_vars

\* every request of every handler under way is answered in the end
SpecDashboardFair ==
    SpecDashboard /\ \A k \in 1..MaxCalls : WF_vars(FetchDataStep(k) \/ WriteStep(k))

\* the transaction list of the Dashboard while the session changes hands: a user signs
\* in from another tab of the browser after the session has ended
NextTransactions ==
    \/ \E k \in 1..MaxCalls : FetchDataStep(k)
    \/ \E k \in 1..MaxCalls : DeleteTransactionStep(k)
    \/ \E i \in DOMAIN dashboard.recentTransactions : handleDeleteTransaction_click(i)
    \/ \E u \in Users : SignIn(u)
    \/ SessionEnds

SpecTransactions == InitTransactions /\ [][NextTransactions]_vars

\* the Dashboard and its AnalyticsDashboard over a store that is only read: the user
\* refreshes and completes uploads, the session ends and u1 signs in again
NextLoading ==
    \/ \E k \in 1..MaxCalls : FetchDataStep(k)
    \/ \E k \in 1..MaxCalls : FetchAnalyticsDataStep(k)
    \/ \E show \in BOOLEAN : SetShowFileUpload(show)
    \/ handleUpload
    \/ Refresh
    \/ SignIn("u1")
    \/ SessionEnds

SpecLoading == InitLoading /\ [][NextLoading]_vars

\* every request of every fetch under way is answered in the end
SpecLoadingFair ==
    SpecLoading /\ \A k \in 1..MaxCalls : WF_vars(FetchDataStep(k) \/ FetchAnalyticsDataStep(k))

-----------------------------------------------------------------------------
(* Properties of the aggregate *)

\* the period a call is about
CallMonth == COALESCE(rpc.args.target_month, now.date.m)
CallYear == COALESCE(rpc.args.target_year, now.date.y)

\* the caller's transactions and budget rows of that period, read off the tables
CallTx ==
    { x \in db_expenses : /\ x.user_id = rpc.args.user_uuid
                          /\ x.date.m = CallMonth
                          /\ x.date.y = CallYear }
CallBudgets ==
    { b \in db_budgets : /\ b.user_id = rpc.args.user_uuid
                         /\ b.month = CallMonth
                         /\ b.year = CallYear }

RowsNamed(rows, name) == { i \in 1..Len(rows) : rows[i].category_name = name }

RECURSIVE SumTotalSpent(_, _)
SumTotalSpent(rows, I) ==
    IF I = {} THEN 0
    ELSE LET i == CHOOSE x \in I : TRUE IN rows[i].total_spent + SumTotalSpent(rows, I \ {i})

RECURSIVE SumTransactionCount(_, _)
SumTransactionCount(rows, I) ==
    IF I = {} THEN 0
    ELSE LET i == CHOOSE x \in I : TRUE
         IN  rows[i].transaction_count + SumTransactionCount(rows, I \ {i})

\* C1: conservation. The total_spent of the returned rows add up to the amounts of the
\* user's transactions of the month and year, the transaction_count to their number,
\* and the same holds category by category: no transaction is dropped or counted twice.
C1_Conservation ==
    rpc.done =>
        /\ SumTotalSpent(rpc.rows, DOMAIN rpc.rows) = SumAmount(CallTx)
        /\ SumTransactionCount(rpc.rows, DOMAIN rpc.rows) = Cardinality(CallTx)
        /\ \A c \in expense_categories :
              LET T == { x \in CallTx : x.category_id = c.id }
                  I == RowsNamed(rpc.rows, c.name)
              IN  /\ SumTotalSpent(rpc.rows, I) = SumAmount(T)
                  /\ SumTransactionCount(rpc.rows, I) = Cardinality(T)

\* two transactions of the period are summed while an out-of-scope one and two budget
\* rows of the user's category are in the tables
C1_Witness ==
    /\ rpc.done
    /\ Cardinality(CallTx) = 2
    /\ SumTotalSpent(rpc.rows, DOMAIN rpc.rows) = 17000
    /\ \E b1 \in db_budgets, b2 \in db_budgets :
          b1 # b2 /\ b1.user_id = rpc.args.user_uuid /\ b2.user_id = rpc.args.user_uuid

\* C2: isolation. The rows are those the function returns on the tables cut down to
\* the caller's transactions and budgets of the period: rows of other users and of
\* other months or years have no influence.
C2_Isolation ==
    rpc.done =>
        rpc.rows = calculate_spending_insights(CallTx, CallBudgets, now.date,
                       rpc.args.user_uuid, rpc.args.target_month, rpc.args.target_year)

\* the call is answered while another user has a transaction and a budget in the same
\* category and period as the caller's
C2_Witness ==
    /\ rpc.done
    /\ \E x \in CallTx : \E z \in db_expenses :
          /\ z.user_id # x.user_id
          /\ z.category_id = x.category_id
          /\ z.date = x.date
    /\ \E b \in CallBudgets : \E z \in db_budgets :
          /\ z.user_id # b.user_id
          /\ z.category_id = b.category_id
          /\ z.month = b.month /\ z.year = b.year

\* C3: exactly one row per category of the catalog, and a category with no matching
\* transaction and no budget has the all-zero row.
C3_OneRowPerCategory ==
    rpc.done =>
        /\ Len(rpc.rows) = Cardinality(expense_categories)
        /\ \A c \in expense_categories :
              /\ Cardinality(RowsNamed(rpc.rows, c.name)) = 1
              /\ ( /\ { x \in CallTx : x.category_id = c.id } = {}
                   /\ { b \in CallBudgets : b.category_id = c.id } = {} )
                 => \A i \in RowsNamed(rpc.rows, c.name) :
                       /\ rpc.rows[i].total_spent = 0
                       /\ rpc.rows[i].budget_amount = 0
                       /\ rpc.rows[i].transaction_count = 0

\* a call where one category has a transaction and a budget, another is empty, and
\* the user holds budgets of the category for two periods
C3_Witness ==
    /\ rpc.done
    /\ \E x \in CallTx : \E b \in CallBudgets : x.category_id = b.category_id
    /\ \E b \in db_budgets : b.user_id = rpc.args.user_uuid /\ b \notin CallBudgets
    /\ \E i \in DOMAIN rpc.rows :
          rpc.rows[i].total_spent = 0 /\ rpc.rows[i].budget_amount = 0

\* C4: remaining_budget is budget_amount - total_spent in every row, negative when
\* the spending exceeds the budget.
C4_Remaining ==
    rpc.done =>
        \A i \in DOMAIN rpc.rows :
            rpc.rows[i].remaining_budget = rpc.rows[i].budget_amount - rpc.rows[i].total_spent

\* spent 120.00 against a budget of 100.00: remaining_budget is -20.00
C4_Witness ==
    /\ rpc.done
    /\ \E i \in DOMAIN rpc.rows :
          /\ rpc.rows[i].total_spent = 12000
          /\ rpc.rows[i].budget_amount = 10000
          /\ rpc.rows[i].remaining_budget = -2000

-----------------------------------------------------------------------------
(* Properties of the insight rules *)

InsightsDone == mounted = "DataInsights" /\ ~effectPending
PredictionsDone == mounted = "PredictiveAnalytics" /\ ~effectPending

\* the generated insights with a title that are about a category
Emitted(title, name) ==
    { i \in DOMAIN generatedInsights :
        /\ generatedInsights[i].title = title
        /\ generatedInsights[i].category = <<name>> }

ZeroBudgetNames ==
    { insights[k].category_name : k \in { j \in DOMAIN insights : insights[j].budget_amount = 0 } }

\* C5: a category whose budget_amount is 0 gets no over-budget, approaching-limit or
\* best-category insight and no Prediction, and no ratio is taken over a zero budget.
C5_ZeroBudgetExcluded ==
    /\ InsightsDone =>
          /\ \A n \in ZeroBudgetNames :
                /\ Emitted("Over Budget", n) = {}
                /\ Emitted("Approaching Budget Limit", n) = {}
                /\ Emitted("Great Budget Management", n) = {}
          /\ 0 \notin divisors
    /\ PredictionsDone =>
          /\ \A k \in DOMAIN predictions : predictions[k].category \notin ZeroBudgetNames
          /\ 0 \notin divisors

\* the rules ran on summaries where a category without budget has spending and
\* another category is over its budget
C5_Witness ==
    /\ InsightsDone
    /\ \E k \in DOMAIN insights :
          insights[k].budget_amount = 0 /\ insights[k].total_spent > 0
    /\ \E i \in DOMAIN generatedInsights : generatedInsights[i].title = "Over Budget"
    /\ divisors # {}

\* no transactions: an empty expense list and summaries with nothing spent
NoTransactions ==
    /\ expenses = << >>
    /\ \A k \in DOMAIN insights :
          insights[k].total_spent = 0 /\ insights[k].transaction_count = 0

C7_PrioritySorted ==
    InsightsDone =>
        \A i \in DOMAIN generatedInsights : \A j \in DOMAIN generatedInsights :
            i < j =>
                /\ generatedInsights[j].priority = "high"
                     => generatedInsights[i].priority = "high"
                /\ generatedInsights[j].priority = "medium"
                     => generatedInsights[i].priority \in {"high", "medium"}

\* all three priorities occur and the rules pushed them in another order
C7_Witness ==
    /\ InsightsDone
    /\ \A p \in {"high", "medium", "low"} :
          \E i \in DOMAIN generatedInsights : generatedInsights[i].priority = p
    /\ generatedInsights # NewInsights(expenses, insights, now)

\* C8: a summary with a positive budget gets an over-budget insight (warning, high,
\* value = total_spent - budget_amount) exactly when its utilization exceeds 100%,
\* i.e. total_spent > budget_amount, and never more than one.
C8_OverBudget ==
    InsightsDone =>
        \A k \in DOMAIN insights :
            insights[k].budget_amount > 0 =>
                LET over == Emitted("Over Budget", insights[k].category_name)
                IN  /\ Cardinality(over) =
                         (IF insights[k].total_spent > insights[k].budget_amount THEN 1 ELSE 0)
                    /\ \A i \in over :
                          /\ generatedInsights[i].type = "warning"
                          /\ generatedInsights[i].priority = "high"
                          /\ generatedInsights[i].value =
                               <<insights[k].total_spent - insights[k].budget_amount>>

\* spent 120.00 on a budget of 100.00: a high warning of 20.00 over, while a
\* category spent to exactly its budget has none
C8_Witness ==
    /\ InsightsDone
    /\ \E k \in DOMAIN insights :
          /\ insights[k].total_spent = 12000 /\ insights[k].budget_amount = 10000
          /\ \E i \in Emitted("Over Budget", insights[k].category_name) :
                generatedInsights[i].value = <<2000>>
    /\ \E k \in DOMAIN insights :
          insights[k].total_spent = 10000 /\ insights[k].budget_amount = 10000

ConcentrationInsights ==
    { i \in DOMAIN generatedInsights :
        generatedInsights[i].title = "Spending Concentration Risk" }

\* the largest total_spent of the summaries (0 when there are none)
RECURSIVE MaxTotalSpent(_)
MaxTotalSpent(ins) ==
    IF ins = << >> THEN 0
    ELSE IF Len(ins) = 1 THEN ins[1].total_spent
    ELSE LET m == MaxTotalSpent(Tail(ins))
         IN  IF ins[1].total_spent >= m THEN ins[1].total_spent ELSE m

\* top / total > 40%, as a ratio of numbers of either sign
ShareAboveForty(top, total) ==
    \/ total > 0 /\ top * 100 > 40 * total
    \/ total < 0 /\ top * 100 < 40 * total

\* the summaries are the aggregate of the listed expenses of the current month
PropsConsistent ==
    \A k \in DOMAIN insights :
        \E ec \in expense_categories :
            /\ ec.name = insights[k].category_name
            /\ LET mine == SelectSeq(expenses, LAMBDA e : /\ e.category_id = ec.id
                                                         /\ e.date.m = now.date.m
                                                         /\ e.date.y = now.date.y)
               IN  /\ insights[k].total_spent = SeqSumAmount(mine)
                   /\ insights[k].transaction_count = Len(mine)

\* C10 as claimed: a concentration insight is emitted exactly when the largest
\* total_spent is more than 40% of the total over the categories with nonzero spend
\* (stated for summaries that are the aggregate of the listed expenses).
C10_NonzeroSpend ==
    (InsightsDone /\ PropsConsistent) =>
        /\ Cardinality(ConcentrationInsights) <= 1
        /\ ConcentrationInsights # {}
             <=> ShareAboveForty(MaxTotalSpent(insights),
                                 SeqSumTotalSpent(SelectSeq(insights,
                                                   LAMBDA i : i.total_spent # 0)))

\* C10, amended: the total is taken over the categories with positive spend. The
\* insight (warning, medium) is emitted exactly when some category has positive spend
\* and the largest total_spent is more than 40% of that total; at most one is emitted
\* and it names the first category in summary order with the largest total_spent.
C10_PositiveSpend ==
    InsightsDone =>
        LET top == MaxTotalSpent(insights)
            totalPositive == SeqSumTotalSpent(SelectSeq(insights, LAMBDA i : i.total_spent > 0))
        IN  /\ Cardinality(ConcentrationInsights) <= 1
            /\ ConcentrationInsights # {} <=> (top > 0 /\ top * 100 > 40 * totalPositive)
            /\ \A i \in ConcentrationInsights :
                  /\ generatedInsights[i].type = "warning"
                  /\ generatedInsights[i].priority = "medium"
                  /\ \E k \in DOMAIN insights :
                        /\ generatedInsights[i].category = <<insights[k].category_name>>
                        /\ insights[k].total_spent = top
                        /\ \A j \in 1..(k - 1) : insights[j].total_spent < top

\* spent 90.00 and 50.00 beside a category with a negative total: the share is
\* 90/140 and the 90.00 category is named
C10_Witness ==
    /\ InsightsDone
    /\ \E a \in DOMAIN insights, b \in DOMAIN insights, c \in DOMAIN insights :
          /\ insights[a].total_spent = 9000
          /\ insights[b].total_spent = 5000
          /\ insights[c].total_spent < 0
          /\ \E i \in ConcentrationInsights :
                generatedInsights[i].category = <<insights[a].category_name>>

-----------------------------------------------------------------------------
(* Properties of the remaining insight rules *)

TrendInsights ==
    { i \in DOMAIN generatedInsights :
        generatedInsights[i].title \in {"Spending Trend: Increasing",
                                        "Spending Trend: Decreasing"} }

HighDayInsights ==
    { i \in DOMAIN generatedInsights :
        generatedInsights[i].title = "High Spending Day Detected" }

\* the dates that occur in the expense list
ExpenseDates == { expenses[k].date : k \in DOMAIN expenses }

BestCategoryInsights ==
    { i \in DOMAIN generatedInsights :
        generatedInsights[i].title = "Great Budget Management" }

\* the summaries with a positive budget and less than 80% of it spent
UnderBudget ==
    { k \in DOMAIN insights : /\ insights[k].budget_amount > 0
                              /\ 10 * insights[k].total_spent < 8 * insights[k].budget_amount }

\* C13: a best-category insight (achievement, low) is emitted exactly when some summary
\* has a positive budget and less than 80% of it spent; then exactly one is emitted,
\* naming the qualifying category with the largest budget_amount - total_spent, the
\* first in summary order among equals.
C13_BestCategory ==
    InsightsDone =>
        /\ Cardinality(BestCategoryInsights) = (IF UnderBudget # {} THEN 1 ELSE 0)
        /\ \A i \in BestCategoryInsights :
              /\ generatedInsights[i].type = "achievement"
              /\ generatedInsights[i].priority = "low"
              /\ \E k \in UnderBudget :
                    /\ generatedInsights[i].category = <<insights[k].category_name>>
                    /\ \A j \in UnderBudget :
                          LET rk == insights[k].budget_amount - insights[k].total_spent
                              rj == insights[j].budget_amount - insights[j].total_spent
                          IN  rj < rk \/ (rj = rk /\ k <= j)

\* two categories with 50.00 left of 100.00 each and a third at exactly 80%: the
\* first of the two is named
C13_Witness ==
    /\ InsightsDone
    /\ \E a \in UnderBudget, b \in UnderBudget :
          /\ a < b
          /\ insights[a].total_spent = 5000 /\ insights[b].total_spent = 5000
          /\ \E i \in BestCategoryInsights :
                generatedInsights[i].category = <<insights[a].category_name>>
    /\ \E c \in DOMAIN insights :
          /\ insights[c].total_spent = 8000 /\ insights[c].budget_amount = 10000
          /\ c \notin UnderBudget

\* C14: a summary gets a frequent-small-purchases insight (suggestion, low, naming its
\* category) exactly when transaction_count > 20 and total_spent / transaction_count
\* is below 10.00, and never more than one; the average is computed for summaries
\* with transaction_count > 0 only, so a summary without transactions neither
\* triggers the rule nor divides by zero.
C14_FrequentSmall ==
    InsightsDone =>
        /\ \A k \in DOMAIN insights :
              LET freq == Emitted("Frequent Small Purchases", insights[k].category_name)
              IN  /\ Cardinality(freq) =
                       (IF /\ insights[k].transaction_count > 20
                           /\ insights[k].total_spent < 1000 * insights[k].transaction_count
                        THEN 1 ELSE 0)
                  /\ \A i \in freq :
                        /\ generatedInsights[i].type = "suggestion"
                        /\ generatedInsights[i].priority = "low"
                  /\ insights[k].transaction_count = 0 => freq = {}
        /\ \A d \in divisions : d.of = "avgTransactionSize" => d.by > 0

\* 21 transactions averaging 7.14 are reported, 21 averaging exactly 10.00 are not,
\* and a third category has no transaction at all
C14_Witness ==
    /\ InsightsDone
    /\ \E a \in DOMAIN insights, b \in DOMAIN insights, c \in DOMAIN insights :
          /\ insights[a].transaction_count = 21 /\ insights[a].total_spent = 15000
          /\ Emitted("Frequent Small Purchases", insights[a].category_name) # {}
          /\ insights[b].transaction_count = 21 /\ insights[b].total_spent = 21000
          /\ Emitted("Frequent Small Purchases", insights[b].category_name) = {}
          /\ insights[c].transaction_count = 0
    /\ Cardinality({ d \in divisions : d.of = "avgTransactionSize" }) = 1

-----------------------------------------------------------------------------
(* Properties of the monthly projection *)

\* sum of total_spent over all summaries
TotalSpentAll == SeqSumTotalSpent(insights)

\* C15: for every day d after today, predicted(d) = predicted(d - 1) + avgDaily with
\* avgDaily = (sum of total_spent over the summaries) / days elapsed, the days elapsed
\* being the day of the month (at least 1); hence the last day's value is
\* predicted(today) + avgDaily x (daysInMonth - today). Values are fractions over the
\* days elapsed.
C15_FutureDays ==
    PredictionsDone =>
        LET today == now.date.d
            last == DaysInMonth(now.date.y, now.date.m)
        IN  /\ today >= 1
            /\ \A d \in DOMAIN monthlyProjection :
                  d > today =>
                     /\ monthlyProjection[d].predicted.den = today
                     /\ monthlyProjection[d].predicted.num =
                          monthlyProjection[d - 1].predicted.num + TotalSpentAll
            /\ (Len(monthlyProjection) = last /\ today < last) =>
                  monthlyProjection[last].predicted.num =
                      monthlyProjection[today].predicted.num + TotalSpentAll * (last - today)

\* the 15th of a 30-day month with 300.00 spent so far: day 16 is at 320.00 and day 30
\* at 600.00
C15_Witness ==
    /\ PredictionsDone
    /\ now.date.d = 15
    /\ Len(monthlyProjection) = 30
    /\ TotalSpentAll = 30000
    /\ monthlyProjection[15].predicted = [num |-> 30000 * 15, den |-> 15]
    /\ monthlyProjection[16].predicted = [num |-> 32000 * 15, den |-> 15]
    /\ monthlyProjection[30].predicted = [num |-> 60000 * 15, den |-> 15]

\* the amounts of the listed expenses dated on days 1..d of the current month
RunningActual(d) ==
    SeqSumAmount(SelectSeq(expenses, LAMBDA e : /\ e.date.y = now.date.y
                                                /\ e.date.m = now.date.m
                                                /\ e.date.d <= d))

\* C16: the series has one entry per calendar day 1..daysInMonth in increasing day
\* order; up to today actual(d) is the running sum of the transactions dated on days
\* 1..d of the current month and predicted(d) equals it; after today actual(d) is
\* null, not 0.
C16_PastDays ==
    PredictionsDone =>
        /\ Len(monthlyProjection) = DaysInMonth(now.date.y, now.date.m)
        /\ \A d \in DOMAIN monthlyProjection :
              /\ monthlyProjection[d].day = d
              /\ d <= now.date.d =>
                    /\ monthlyProjection[d].actual = <<RunningActual(d)>>
                    /\ monthlyProjection[d].predicted.num =
                         RunningActual(d) * monthlyProjection[d].predicted.den
                    /\ monthlyProjection[d].predicted.den > 0
                    /\ ~monthlyProjection[d].isProjected
              /\ d > now.date.d =>
                    /\ monthlyProjection[d].actual = NULL
                    /\ monthlyProjection[d].actual # <<0>>
                    /\ monthlyProjection[d].isProjected

\* the 15th with transactions on the 1st, on the 15th, and one dated in the month
\* before: the running sum steps on both days and the days after have no actual value
C16_Witness ==
    /\ PredictionsDone
    /\ now.date = Date(2025, 4, 15)
    /\ Len(expenses) = 2
    /\ expenses[1].date = Date(2025, 4, 15) /\ expenses[1].amount = 20000
    /\ expenses[2].date = Date(2025, 4, 1) /\ expenses[2].amount = 10000
    /\ monthlyProjection[1].actual = <<10000>>
    /\ monthlyProjection[14].actual = <<10000>>
    /\ monthlyProjection[15].actual = <<30000>>
    /\ monthlyProjection[16].actual = NULL

-----------------------------------------------------------------------------
(* Properties of the predictions *)

PredictionsFor(name) == { i \in DOMAIN predictions : predictions[i].category = name }

ClaimedConfidence ==
    LET vals == SpendingValues(expenses)
        g == SeqGCD(vals)
        w == [k \in DOMAIN vals |-> IF g = 0 THEN 0 ELSE vals[k] \div g]
        n == Len(w)
        S == SeqSum(w)
        cv2 == IF n = 0 \/ S = 0 THEN [num |-> 0, den |-> 1]
               ELSE Fraction(n * SeqSumSquares(w) - S * S, S * S)
    IN  [oneMinusSqrt |-> IF 100 * cv2.num >= 49 * cv2.den THEN [num |-> 49, den |-> 100]
                          ELSE cv2]

NonNegativeAmounts == \A k \in DOMAIN expenses : expenses[k].amount >= 0

\* C18 as claimed, for lists of non-negative amounts: every Prediction carries
\* max(0.3, 1 - cv) with cv = standardDeviation / mean of the daily totals and cv = 0
\* when the mean is 0, also when there is no transaction; it is 1 when all days with
\* transactions have the same total.
C18_Confidence ==
    (PredictionsDone /\ NonNegativeAmounts) =>
        \A i \in DOMAIN predictions :
            /\ predictions[i].confidence = ClaimedConfidence
            /\ (\A a \in DOMAIN SpendingValues(expenses), b \in DOMAIN SpendingValues(expenses) :
                   SpendingValues(expenses)[a] = SpendingValues(expenses)[b])
                 => predictions[i].confidence = [oneMinusSqrt |-> [num |-> 0, den |-> 1]]

-----------------------------------------------------------------------------
(* Properties of the budget writes and of repeated calls *)

\* the budget rows of a key
BudgetRows(u, c, m, y) ==
    { b \in db_budgets : BudgetKey(b) = <<u, c, m, y>> }

\* the period the answered call computed for
RpcMonth == COALESCE(rpc.args.target_month, rpc.date[1].m)
RpcYear == COALESCE(rpc.args.target_year, rpc.date[1].y)

\* the budget_amount the answered call reports for a category id
ReportedBudget(c) ==
    LET ec == CHOOSE x \in expense_categories : x.id = c
        i == CHOOSE k \in DOMAIN rpc.rows : rpc.rows[k].category_name = ec.name
    IN  rpc.rows[i].budget_amount

\* C19: whatever budgets were set and deleted, the table holds at most one row per
\* (user, category, month, year); after a set the key holds the one row with the new
\* amount, also when it had a row before, and after a delete it holds none; a call of
\* the aggregate answered after the write, for the writer and the period of the key,
\* reports the amount set, and 0 after a delete.
C19_BudgetUpsert ==
    /\ \A b1 \in db_budgets, b2 \in db_budgets : BudgetKey(b1) = BudgetKey(b2) => b1 = b2
    /\ lastBudgetOp # NULL =>
          LET op == lastBudgetOp[1]
              rows == BudgetRows(op.user_id, op.category_id, op.month, op.year)
              answered == /\ rpc.done
                          /\ rpc.args.user_uuid = op.user_id
                          /\ RpcMonth = op.month /\ RpcYear = op.year
          IN  /\ op.op = "set" =>
                    /\ rows = { [user_id |-> op.user_id, category_id |-> op.category_id,
                                 amount |-> op.amount, month |-> op.month, year |-> op.year] }
                    /\ answered => ReportedBudget(op.category_id) = op.amount
              /\ op.op = "delete" =>
                    /\ rows = {}
                    /\ answered => ReportedBudget(op.category_id) = 0

\* a budget of 200.00 was set on a key that had a row, the table has a row of another
\* user too, and the call answered afterwards reports 200.00
C19_Witness ==
    /\ lastBudgetOp # NULL
    /\ lastBudgetOp[1].op = "set"
    /\ lastBudgetOp[1].replaced
    /\ lastBudgetOp[1].amount = 20000
    /\ \E b \in db_budgets : b.user_id # lastBudgetOp[1].user_id
    /\ rpc.done
    /\ rpc.args.user_uuid = lastBudgetOp[1].user_id
    /\ RpcMonth = lastBudgetOp[1].month
    /\ ReportedBudget(lastBudgetOp[1].category_id) = 20000

\* the previous call had the same arguments and read the same tables
SameCallTwice ==
    /\ rpc.done
    /\ lastRpc # NULL
    /\ lastRpc[1].args = rpc.args

\* C20 as claimed: two calls with the same arguments on unchanged tables return the
\* same rows.
C20_SameArguments ==
    SameCallTwice => rpc.rows = lastRpc[1].rows

\* the function is answered without a write to a table
RpcReadsOnly ==
    (~rpc.done /\ rpc'.done) => UNCHANGED <<db_expenses, db_budgets>>

\* the period of the previous call
LastRpcMonth == COALESCE(lastRpc[1].args.target_month, lastRpc[1].date[1].m)
LastRpcYear == COALESCE(lastRpc[1].args.target_year, lastRpc[1].date[1].y)

\* C20, amended: two calls with the same arguments on unchanged tables return the
\* same rows when they compute for the same month and year, that is when month and
\* year are given or the current date is in the same month and year at both calls;
\* and answering a call changes no transaction and no budget.
C20_SamePeriod ==
    /\ [](( /\ SameCallTwice
            /\ RpcMonth = LastRpcMonth
            /\ RpcYear = LastRpcYear ) => rpc.rows = lastRpc[1].rows)
    /\ [][RpcReadsOnly]_vars

\* the same call answered on two days of the same month, with a budget and a
\* transaction in the tables
C20_Witness ==
    /\ SameCallTwice
    /\ rpc.date # lastRpc[1].date
    /\ RpcMonth = LastRpcMonth
    /\ rpc.args.target_month = NULL
    /\ db_budgets # {}
    /\ \E i \in DOMAIN rpc.rows : rpc.rows[i].total_spent > 0 /\ rpc.rows[i].budget_amount > 0

-----------------------------------------------------------------------------
(* Properties of the whole list, the windows and the projection against the summaries *)

\* the rule an insight comes from, in the order the rules run
RuleRank(title) ==
    CASE title \in {"Over Budget", "Approaching Budget Limit"} -> 1
      [] title = "High Spending Day Detected" -> 2
      [] title = "Spending Concentration Risk" -> 3
      [] title = "Frequent Small Purchases" -> 4
      [] title = "Great Budget Management" -> 5
      [] OTHER -> 6

\* the place in the summaries of the category an insight is about, 0 without category
SummaryIndex(category) ==
    IF category = NULL THEN 0
    ELSE CHOOSE k \in DOMAIN insights :
            /\ insights[k].category_name = category[1]
            /\ \A j \in DOMAIN insights : insights[j].category_name = category[1] => k <= j

Occurrences(list, x) == Cardinality({ i \in DOMAIN list : list[i] = x })

\* C22: among insights of equal priority the returned list keeps the order of
\* generation (budget warnings in summary order, high-spending-day, concentration,
\* frequency suggestions in summary order, best-category, trend), and the list holds
\* exactly the insights the rules generated, each as often as generated.
C22_StableSort ==
    InsightsDone =>
        LET generated == NewInsights(expenses, insights, now)
        IN  /\ Len(generatedInsights) = Len(generated)
            /\ \A k \in DOMAIN generated :
                  Occurrences(generatedInsights, generated[k])
                    = Occurrences(generated, generated[k])
            /\ \A i \in DOMAIN generatedInsights : \A j \in DOMAIN generatedInsights :
                  (i < j /\ generatedInsights[i].priority = generatedInsights[j].priority) =>
                      LET ri == RuleRank(generatedInsights[i].title)
                          rj == RuleRank(generatedInsights[j].title)
                      IN  \/ ri < rj
                          \/ /\ ri = rj
                             /\ SummaryIndex(generatedInsights[i].category)
                                  < SummaryIndex(generatedInsights[j].category)

\* the sort moved something, two budget warnings of one priority and two insights of
\* one priority from different rules came out
C22_Witness ==
    /\ InsightsDone
    /\ generatedInsights # NewInsights(expenses, insights, now)
    /\ \E i \in DOMAIN generatedInsights : \E j \in DOMAIN generatedInsights :
          /\ i < j
          /\ generatedInsights[i].priority = generatedInsights[j].priority
          /\ RuleRank(generatedInsights[i].title) = 1
          /\ RuleRank(generatedInsights[j].title) = 1
    /\ \E i \in DOMAIN generatedInsights : \E j \in DOMAIN generatedInsights :
          /\ i < j
          /\ generatedInsights[i].priority = generatedInsights[j].priority
          /\ RuleRank(generatedInsights[i].title) < RuleRank(generatedInsights[j].title)

MetricsDone == mounted = "AdvancedMetrics" /\ ~effectPending

\* (now - transactionDate) counted in half days: a time after midnight UTC adds a part
\* of a day to the whole days between the dates
HalfDaysSince(d) == 2 * (DayNumber(now.date) - DayNumber(d)) + now.tod

\* the sums of the two windows as claimed: diff <= 7, and 7 < diff <= 14
ClaimedRecentSum ==
    SeqSumAmount(SelectSeq(expenses, LAMBDA e : HalfDaysSince(e.date) <= 14))
ClaimedPreviousSum ==
    SeqSumAmount(SelectSeq(expenses, LAMBDA e : /\ HalfDaysSince(e.date) > 14
                                               /\ HalfDaysSince(e.date) <= 28))

\* C23: a transaction counts in the recent sum iff diff <= 7 (a date exactly 7 days
\* before now and a date after now included) and in the previous sum iff
\* 7 < diff <= 14, so in at most one of them and in none when older than 14 days;
\* the trend insight and the spending velocity of AdvancedMetrics are both the change
\* between these two sums.
C23_WindowPartition ==
    LET recent == ClaimedRecentSum
        previous == ClaimedPreviousSum
    IN  /\ InsightsDone =>
              /\ (TrendInsights # {}) <=>
                     (previous > 0 /\ Abs(recent - previous) * 100 > 20 * previous)
              /\ \A i \in TrendInsights :
                    /\ generatedInsights[i].type = "warning" <=> recent > previous
                    /\ generatedInsights[i].priority = "high"
                          <=> Abs(recent - previous) * 100 > 50 * previous
        /\ MetricsDone =>
              metrics[1].spendingVelocity =
                  IF previous > 0
                  THEN [num |-> (recent - previous) * 100, den |-> previous]
                  ELSE [num |-> 0, den |-> 1]

\* at midnight, with transactions dated after today, exactly 7, exactly 14 and more
\* than 14 days ago: 60.00 + 50.00 against 80.00, a velocity of 37.5%
C23_Witness ==
    /\ MetricsDone
    /\ \E k \in DOMAIN expenses : HalfDaysSince(expenses[k].date) < 0
    /\ \E k \in DOMAIN expenses : HalfDaysSince(expenses[k].date) = 14
    /\ \E k \in DOMAIN expenses : HalfDaysSince(expenses[k].date) = 28
    /\ \E k \in DOMAIN expenses : HalfDaysSince(expenses[k].date) > 28
    /\ metrics[1].spendingVelocity = [num |-> 300000, den |-> 8000]

\* the list and the summaries were read from the tables as they are
SameStoreState ==
    /\ expenses = FetchExpenses(db_expenses, rpc.args.user_uuid)
    /\ insights = calculate_spending_insights(db_expenses, db_budgets, now.date,
                                               rpc.args.user_uuid, NULL, NULL)

\* C26 as claimed: when the list and the summaries come from the same state of the
\* tables, the cumulative actual of today equals the sum of total_spent over the
\* summaries, and the first projected value is that sum plus avgDaily (the sum over
\* the days elapsed).
C26_Continuity ==
    (PredictionsDone /\ SameStoreState) =>
        LET today == now.date.d
        IN  /\ monthlyProjection[today].actual = <<TotalSpentAll>>
            /\ today < Len(monthlyProjection) =>
                  monthlyProjection[today + 1].predicted =
                      [num |-> TotalSpentAll * today + TotalSpentAll, den |-> today]

\* the amounts of the listed expenses of the current month that are dated after today
DatedAfterToday ==
    SeqSumAmount(SelectSeq(expenses, LAMBDA e : /\ e.date.y = now.date.y
                                                /\ e.date.m = now.date.m
                                                /\ e.date.d > now.date.d))

\* C26, amended: when the list and the summaries come from the same state of the
\* tables, the cumulative actual of today equals the sum of total_spent over the
\* summaries less the amounts dated after today, and the first projected value is
\* that cumulative actual plus avgDaily, the whole sum over the days elapsed.
C26_ContinuityToDate ==
    (PredictionsDone /\ SameStoreState) =>
        LET today == now.date.d
            actual == TotalSpentAll - DatedAfterToday
        IN  /\ monthlyProjection[today].actual = <<actual>>
            /\ today < Len(monthlyProjection) =>
                  monthlyProjection[today + 1].predicted =
                      [num |-> actual * today + TotalSpentAll, den |-> today]

\* 50.00 on the 5th, 80.00 today and 100.00 dated the 20th: the summaries hold
\* 230.00, the actual of today is 130.00
C26_Witness ==
    /\ PredictionsDone
    /\ SameStoreState
    /\ TotalSpentAll = 23000
    /\ DatedAfterToday = 10000
    /\ monthlyProjection[now.date.d].actual = <<13000>>

\* the categories the budget analysis of the same summaries on the same day reports
\* as over budget
OverBudgetCategories ==
    { BudgetAnalysis(insights, now)[i].category[1]
      : i \in { j \in DOMAIN BudgetAnalysis(insights, now) :
                  BudgetAnalysis(insights, now)[j].title = "Over Budget" } }

SpendingCategories == { k \in DOMAIN insights : insights[k].total_spent > 0 }

\* C28: with exactly one or exactly two categories of total_spent > 0 the
\* concentration warning is always emitted, the top share being at least 50%; with
\* three or more it is emitted only when the top share exceeds 40%.
C28_FewCategories ==
    InsightsDone =>
        LET n == Cardinality(SpendingCategories)
            top == MaxTotalSpent(insights)
            total == SumTotalSpent(insights, SpendingCategories)
        IN  /\ n \in {1, 2} =>
                  /\ 2 * top >= total
                  /\ Cardinality(ConcentrationInsights) = 1
                  /\ \A i \in ConcentrationInsights :
                        \E k \in SpendingCategories :
                           /\ insights[k].total_spent = top
                           /\ generatedInsights[i].category = <<insights[k].category_name>>
            /\ n >= 3 =>
                  (ConcentrationInsights # {} => top * 100 > 40 * total)

\* two categories with the same total_spent, 50% each: the warning is emitted
C28_Witness ==
    /\ InsightsDone
    /\ Cardinality(SpendingCategories) = 2
    /\ \A k \in SpendingCategories : insights[k].total_spent = MaxTotalSpent(insights)
    /\ ConcentrationInsights # {}

\* C29: when every transaction amount is strictly positive and the transactions fall
\* on fewer than three distinct dates (none, one or two), no high-spending-day insight
\* is emitted.
C29_SpikeNeedsThreeDays ==
    ( /\ InsightsDone
      /\ \A k \in DOMAIN expenses : expenses[k].amount > 0
      /\ Cardinality(ExpenseDates) < 3 ) => HighDayInsights = {}

\* two dates, 120.00 on one and 50.00 on the other: twice the average is 170.00 and
\* no day is reported
C29_Witness ==
    /\ InsightsDone
    /\ Cardinality(ExpenseDates) = 2
    /\ Len(expenses) = 2
    /\ { expenses[k].amount : k \in DOMAIN expenses } = {12000, 5000}
    /\ HighDayInsights = {}

-----------------------------------------------------------------------------
(* Properties of the Dashboard's handlers *)

\* the handlers of kind h under way that stand at pc
CallsAt(cs, h, pc) == { k \in DOMAIN cs : cs[k].handler = h /\ cs[k].pc = pc }

\* C25: a step removes at most one row of expenses, and a row that is removed has the
\* id a handleDeleteTransaction under way was called with and the user_id getUser() gave
\* that handler, so never a row of another user; a handler that got no user from
\* getUser() never comes to issue its delete, and while nobody is signed in no row is
\* removed and no handler comes to its delete.
C25_OwnerOnlyDelete ==
    /\ [](\A k \in DOMAIN calls :
             (calls[k].handler = "handleDeleteTransaction" /\ calls[k].pc = "write")
                => calls[k].user # NULL)
    /\ [][ LET removed == db_expenses \ db_expenses'
           IN  /\ Cardinality(removed) <= 1
               /\ \A x \in removed :
                      \E k \in CallsAt(calls, "handleDeleteTransaction", "write") :
                         /\ calls[k].id = x.id
                         /\ calls[k].user = <<x.user_id>>
               /\ session = NULL
                     => /\ removed = {}
                        /\ Cardinality(CallsAt(calls', "handleDeleteTransaction", "write"))
                              <= Cardinality(CallsAt(calls, "handleDeleteTransaction", "write")) ]_vars

\* the list shown is the one of u2, u1 is signed in, and a delete called on the row of
\* u2 has been answered without an error: every row is still there
C25_Witness ==
    /\ session = <<"u1">>
    /\ Len(dashboard.recentTransactions) = 1
    /\ dashboard.recentTransactions[1].id = 2
    /\ dashboard.toast = ToastDefault
    /\ \E k \in DOMAIN calls : calls[k].handler = "fetchData"
                                /\ calls[k].cause = "handleDeleteTransaction"
    /\ db_expenses = TransactionsSeedExpenses

\* the fetchData calls under way, and the fetchAnalyticsData calls under way whose
\* component is mounted
FetchDataCalls(cs) == { k \in DOMAIN cs : cs[k].handler = "fetchData" }
LiveAnalyticsCalls(cs) == { k \in DOMAIN cs : cs[k].handler = "fetchAnalyticsData" /\ cs[k].live }

\* C30: a step that starts a fetchData or a fetchAnalyticsData leaves the component's
\* loading flag true; a step that ends one (all reads answered, a read answered with an
\* error, or no user) leaves it false; a fetchAnalyticsData that ends on an error or
\* without a user leaves expenses, categories and insights as they were; and whenever a
\* loading flag is true it is false again later (for the AnalyticsDashboard, unless it
\* is unmounted before).
C30_LoadingEnds ==
    /\ [][ /\ Cardinality(CallsAt(calls', "fetchData", "getUser"))
                 > Cardinality(CallsAt(calls, "fetchData", "getUser"))
              => dashboard'.loading
           /\ Cardinality(FetchDataCalls(calls')) < Cardinality(FetchDataCalls(calls))
              => ~dashboard'.loading
           /\ Cardinality(LiveAnalyticsCalls(calls')) > Cardinality(LiveAnalyticsCalls(calls))
              => (analytics' # NULL /\ analytics'[1].loading)
           /\ ( /\ Cardinality(LiveAnalyticsCalls(calls'))
                      < Cardinality(LiveAnalyticsCalls(calls))
                /\ analytics' # NULL )
              => /\ ~analytics'[1].loading
                 /\ ( \/ \E k \in LiveAnalyticsCalls(calls) : calls[k].pc # "rpc"
                      \/ dashboard'.toast # dashboard.toast )
                    => /\ expenses' = expenses
                       /\ insights' = insights
                       /\ analytics'[1].categories = analytics[1].categories ]_vars
    /\ (dashboard.loading ~> ~dashboard.loading)
    /\ ((analytics # NULL /\ analytics[1].loading)
           ~> (analytics = NULL \/ ~analytics[1].loading))

\* the AnalyticsDashboard holds the expenses of a fetch that succeeded, a later fetch
\* has shown the error toast, and nothing is loading
C30_Witness ==
    /\ calls = << >>
    /\ ~dashboard.loading
    /\ dashboard.toast = ToastDestructive
    /\ dashboard.recentTransactions # << >>
    /\ analytics # NULL
    /\ ~analytics[1].loading
    /\ analytics[1].categories # << >>
    /\ expenses # << >>

\* the handlers under way that write, and those of them whose write is pending
HandlerCalls(cs) ==
    { k \in DOMAIN cs : cs[k].handler \notin {"fetchData", "fetchAnalyticsData"} }
WriteCalls(cs) == { k \in HandlerCalls(cs) : cs[k].pc = "write" }

\* a step in which a pending write is answered, with the success toast or the error toast
WriteAnswered == Cardinality(WriteCalls(calls')) < Cardinality(WriteCalls(calls))
WriteSucceeded == WriteAnswered /\ dashboard'.toast = ToastDefault
WriteFailed == WriteAnswered /\ dashboard'.toast = ToastDestructive

\* a step in which a handler returns for want of a user, and one in which the validation
\* of a dialog rejects the input
ReturnedWithoutUser ==
    /\ Cardinality(HandlerCalls(calls')) < Cardinality(HandlerCalls(calls))
    /\ ~WriteAnswered
RejectedByValidation ==
    /\ calls' = calls
    /\ dashboard'.toast = ToastDestructive
    /\ dashboard.toast # ToastDestructive

\* a step in which fetchData() is called
FetchDataCalled ==
    Cardinality(CallsAt(calls', "fetchData", "getUser"))
       > Cardinality(CallsAt(calls, "fetchData", "getUser"))

\* what every step of the Dashboard does about re-fetching: a write that succeeded, and
\* any change of the tables, comes with a call of fetchData(); a write that failed, a
\* handler that returned without a user and a rejected input come with none and leave
\* the tables and the summaries shown as they were
RefetchSteps ==
    /\ (WriteSucceeded \/ db_expenses' # db_expenses \/ db_budgets' # db_budgets)
          => (FetchDataCalled /\ dashboard'.loading)
    /\ (WriteFailed \/ ReturnedWithoutUser \/ RejectedByValidation)
          => /\ ~FetchDataCalled
             /\ dashboard'.spendingInsights = dashboard.spendingInsights
             /\ db_expenses' = db_expenses
             /\ db_budgets' = db_budgets

\* a fetchData() called after a write is under way and has yet to ask for the user
FetchAfterWrite ==
    \E k \in CallsAt(calls, "fetchData", "getUser") :
       calls[k].cause \in {"handleSetBudget", "handleDeleteBudget",
                           "handleDeleteTransaction", "handleSubmit"}

\* the summaries shown are the aggregate of the tables as they are, for the user of
\* this Dashboard
SummariesFresh ==
    dashboard.spendingInsights =
        calculate_spending_insights(db_expenses, db_budgets, now.date, "u1", NULL, NULL)

====
